---- MODULE Spec2Model ----
(***************************************************************************)
(* Verification model of the crypto_bot trading engine.                    *)
(*                                                                         *)
(*   Part 1  LockFreeQueue (include/hft_engine.h): the single-producer /   *)
(*           single-consumer ring, one atomic access per step.             *)
(*   Part 2  RiskManager (src/risk_manager.cpp): pre-trade gate, PnL and   *)
(*           position updates, circuit breaker, order-rate window.         *)
(*   Part 3  HFTEngine (src/hft_engine.cpp): trading worker, fill path and *)
(*           the 100 ms risk worker around the RiskManager.                *)
(*                                                                         *)
(* Prices, quantities and PnL are integers (fixed-point units); time is a  *)
(* discrete clock.                                                         *)
(***************************************************************************)
EXTENDS Integers, Sequences, FiniteSets, TLC

(***************************************************************************)
(* Bounds of the model.                                                    *)
(***************************************************************************)
\* template parameter Size of LockFreeQueue<T, Size>, scaled down
QSize == 3
\* number of distinct items the producer offers
MaxItems == 4
\* last instant of the discrete clock
MaxTime == 12
\* number of updatePosition calls followed next to canPlaceOrder
MaxMutations == 3
\* number of latency samples followed
MaxSamples == 3
\* number of feed messages the transport delivers during startup
MaxMessages == 2
\* number of values of a uint64_t (2^64 in the code), scaled down
UInt64Values == 8
\* configured MAX_DAILY_LOSS_LIMIT, in PnL units
DailyLossLimit == 2
\* configured MAX_DRAWDOWN_LIMIT, in PnL units
DrawdownLimit == 3
\* configured ORDER_RATE_LIMIT
RateLimit == 2
\* instant of the clock at which the first daily reset of SpecRate falls due
FirstResetDue == 6
\* signal.num_levels of generate_signal (5 in the code), scaled down
NumLevels == 2
\* configured maximum inventory (max_position_), in order units
MaxInventory == 2
\* number of ladders the trading worker places
MaxLadders == 3
\* number of orders a session hands to the OrderManager
MaxFills == 4
\* number of orders sent and latest clock reading where order records are
\* followed over time
MaxSends == 3
MaxOrderAge == 3

VARIABLES
    \* ---- LockFreeQueue ----
    head_,            \* std::atomic<size_t> head_
    tail_,            \* std::atomic<size_t> tail_
    buffer_,          \* std::array<T, Size> buffer_
    p_pc,             \* producer's position inside push()
    p_item,           \* push(): item
    p_current_tail,   \* push(): current_tail
    c_pc,             \* consumer's position inside pop()
    c_current_head,   \* pop(): current_head
    c_item,           \* pop(): item (out parameter)
    nextItem,         \* next fresh item the producer offers
    pushed,           \* history: items of the push() calls that returned true
    popped,           \* history: items of the pop() calls that returned true
    lastPush,         \* observation of the last finished push()
    lastPop,          \* observation of the last finished pop()
    \* ---- RiskManager ----
    circuit_breaker_active_,   \* std::atomic<bool>
    circuit_breaker_reason_,   \* std::string
    positions_,                \* std::map<symbol, net position>
    position_limits_,          \* std::map<symbol, max position>
    current_pnl_,
    daily_pnl_,
    peak_pnl_,
    max_daily_loss_limit_,
    max_drawdown_limit_,
    daily_reset_time_,         \* time_point of the last daily reset
    recent_orders_,            \* std::vector<time_point>
    max_orders_per_second_,
    risk_events_,              \* std::vector<RiskEvent>
    now,                       \* system_clock::now(), in ticks
    monitor_pc,                \* monitoringLoop(): position in the loop body
    monitor_now,               \* monitoringLoop(): its local "now"
    lastOp,                    \* observation of the last RiskManager call
    \* ---- HFTEngine and OrderManager ----
    running_,                  \* HFTEngine: std::atomic<bool>
    risk_breach_,              \* HFTEngine: std::atomic<bool>
    current_position_,         \* HFTEngine: std::atomic<double>
    orders_filled,             \* HFTMetrics: std::atomic<uint64_t>
    inbound_order_queue_,      \* HFTEngine: filled orders awaiting processing
    om_current_position_,      \* OrderManager::current_position_
    previous_position_,        \* OrderManager
    avg_buy_price_,            \* OrderManager
    cumulative_pnl_,           \* OrderManager
    t_pc,                      \* order_engine_worker(): position
    t_signal,                  \* order_engine_worker(): the HFTSignal in hand
    t_level,                   \* place_order_ladder(): level
    ladders,                   \* number of ladders started
    r_pc,                      \* risk_management_worker(): position
    r_current_pnl,             \* risk_management_worker(): current_pnl
    r_can_buy,                 \* risk_management_worker(): can_buy
    last_pnl,                  \* risk_management_worker(): last_pnl
    lastSend,                  \* observation of the last send_order() call
    buy_trades_,               \* OrderManager: session statistics
    sell_trades_,              \* OrderManager: session statistics
    fills,                     \* history: the orders the OrderManager filled
    lastFill,                  \* observation of the last executeOrder() call
    tracked_orders_,           \* OrderManager: the keys of the tracked-orders table
    orders_placed_,            \* OrderManager: number of trackOrder() calls
    active_orders_,            \* HFTEngine: the records of the orders sent
    active_order_count_        \* HFTEngine: number of orders sent

queueVars == <<head_, tail_, buffer_, p_pc, p_item, p_current_tail,
               c_pc, c_current_head, c_item, nextItem, pushed, popped,
               lastPush, lastPop>>

riskVars == <<circuit_breaker_active_, circuit_breaker_reason_, positions_,
              position_limits_, current_pnl_, daily_pnl_, peak_pnl_,
              max_daily_loss_limit_, max_drawdown_limit_, daily_reset_time_,
              recent_orders_, max_orders_per_second_, risk_events_, now,
              monitor_pc, monitor_now, lastOp>>

engineVars == <<running_, risk_breach_, current_position_, orders_filled,
                inbound_order_queue_, om_current_position_,
                previous_position_, avg_buy_price_, cumulative_pnl_, t_pc,
                t_signal, t_level, ladders, r_pc, r_current_pnl, r_can_buy,
                last_pnl, lastSend, buy_trades_, sell_trades_, fills,
                lastFill, tracked_orders_, orders_placed_, active_orders_,
                active_order_count_>>

\* the engine's records of the orders it sent
orderVars == <<active_orders_, active_order_count_>>

\* the OrderManager's session statistics and the observations of its fills
sessionVars == <<buy_trades_, sell_trades_, fills, lastFill, tracked_orders_,
                 orders_placed_>>

\* HFTEngine::start()/stop() and main(): the worker threads and the callers
\* of stop()
VARIABLES
    running,                   \* hft_main.cpp: the flag the signal handler clears
    main_pc,                   \* main(): where the main thread is
    thread_state,              \* per worker: its function is running or exited
    joinable,                  \* per worker: std::thread::joinable()
    stop_pc,                   \* per caller of stop(): where the call is
    stop_join,                 \* per caller of stop(): the thread it joins next
    summaries,                 \* number of session summaries generated
    summary_early,             \* a summary was generated before a worker exited
    terminated                 \* std::terminate() was called

stopVars == <<running, main_pc, thread_state, joinable, stop_pc, stop_join,
              summaries, summary_early, terminated>>

\* the engine's variables that start() and stop() leave alone
tradingVars == <<current_position_, orders_filled, inbound_order_queue_,
                 om_current_position_, previous_position_, avg_buy_price_,
                 cumulative_pnl_, t_pc, t_signal, t_level, ladders, r_pc,
                 r_current_pnl, r_can_buy, last_pnl, lastSend, buy_trades_,
                 sell_trades_, fills, lastFill, tracked_orders_,
                 orders_placed_, orderVars>>

\* OrderBook, and the market data path of the engine
VARIABLES
    bids_,                     \* OrderBook: price -> quantity
    asks_,                     \* OrderBook: price -> quantity
    book_op,                   \* OrderBook: the mutation holding mutex_
    book_count,                \* OrderBook: entries that mutation has read
    book_last,                 \* observation: the last entry a mutation read
    book_unread,               \* observation: the entry an exception left unread
    current_bid_,              \* HFTEngine: published best bid (atomic)
    current_ask_,              \* HFTEngine: published best ask (atomic)
    market_data_queue_,        \* HFTEngine: ring of market data snapshots
    md_pc,                     \* WebSocket callback: where it is
    md_best,                   \* WebSocket callback: best_bid, best_ask
    md_count,                  \* WebSocket callback: updates it has read
    md_data,                   \* WebSocket callback: the market_data it built
    tq_bid,                    \* trading worker: bid_price read on the timed path
    signal_input               \* observation: the prices of the last signal

bookVars == <<bids_, asks_, book_op, book_count, book_last, book_unread>>

marketVars == <<current_bid_, current_ask_, market_data_queue_, md_pc,
                md_best, md_count, md_data, tq_bid, signal_input>>

\* a caller of OrderBook::getSnapshot()
VARIABLES
    snap_pc,                   \* getSnapshot caller: where it is
    snapshot,                  \* getSnapshot caller: the snapshot returned
    book_before                \* observation: the book when the last message began

snapVars == <<snap_pc, snapshot, book_before>>

\* main() of src/main.cpp and its OrderManager
VARIABLES
    bot_pc,                    \* main(): where it is with its order_manager
    bot_summaries              \* session summaries that order_manager generated

lifeVars == <<bot_pc, bot_summaries>>

\* the threads that take the mutexes of RiskManager, OrderManager and OrderBook
VARIABLES
    mutex_owner,               \* per std::mutex: the thread that holds it, or "none"
    lock_steps,                \* per thread: what is left of the call it is in
    lock_state,                \* per thread: "running", "deadlocked" or "failed"
    position_keys              \* the symbols that have an entry in positions_

lockVars == <<mutex_owner, lock_steps, lock_state, position_keys>>

\* a thread in canPlaceOrder next to threads in updatePosition
VARIABLES
    gate,                      \* the canPlaceOrder call: where it is, what it read
    upd,                       \* per thread: the updatePosition call it is in
    mutations                  \* observation: every updatePosition call so far

gateVars == <<gate, upd, mutations>>

\* the prices and quantities of one quote ladder
VARIABLES
    quote_input,               \* the market data and the inventory quoted on
    quote_signal,              \* the signal generate_signal returned
    quote_orders,              \* the orders place_order_ladder built
    quote_repeat               \* observation: the call repeated the one before

quoteVars == <<quote_input, quote_signal, quote_orders, quote_repeat>>

\* the order latency metrics of the engine
VARIABLES
    avg_order_latency_ns,      \* metrics_.avg_order_latency_ns
    min_order_latency_ns,      \* metrics_.min_order_latency_ns
    max_order_latency_ns,      \* metrics_.max_order_latency_ns
    latency_samples,           \* observation: the samples so far
    latency_prev_avg           \* observation: the average before the last sample

latencyVars == <<avg_order_latency_ns, min_order_latency_ns,
                 max_order_latency_ns, latency_samples, latency_prev_avg>>

\* HFTEngine::start() and the WebSocketClient it connects
VARIABLES
    start_pc,                  \* start(): where the call is
    start_result,              \* observation: how the last start() call ended
    connected_,                \* WebSocketClient: std::atomic<bool>
    pending_subscriptions_,    \* WebSocketClient: subscriptions awaiting connection
    tx_queue_,                 \* WebSocketClient: messages handed to sendMessage
    message_callback_,         \* WebSocketClient: a message callback is set
    ws_pc,                     \* the transport thread: where it is
    sub_pc,                    \* subscribeOrderBook(): where the call is
    rx_handled,                \* messages handed to the message callback
    rx_dropped                 \* messages that arrived with no callback set

startVars == <<start_pc, start_result, connected_, pending_subscriptions_,
               tx_queue_, message_callback_, ws_pc, sub_pc, rx_handled,
               rx_dropped>>

restVars == <<lockVars, gateVars, quoteVars, latencyVars, startVars>>

furtherVars == <<snapVars, lifeVars, restVars>>

laterVars == <<stopVars, bookVars, marketVars, furtherVars>>

vars == <<queueVars, riskVars, engineVars, laterVars>>

(***************************************************************************)
(* Part 1: LockFreeQueue                                                   *)
(***************************************************************************)
NoItem == 0

Abs(x) == IF x < 0 THEN -x ELSE x

\* size_t increment(size_t idx) const { return (idx + 1) % Size; }
increment(idx) == (idx + 1) % QSize

\* push(): "if (next_tail != head_.load())" is the room test; its negation is
\* the "Queue full" branch.
QueueFullMutant(next_tail, h) == FALSE
QueueFull(next_tail, h) == next_tail = h

\* pop(): "if (current_head == tail_.load()) return false; // Queue empty"
QueueEmptyMutant(current_head, t) == FALSE
QueueEmpty(current_head, t) == current_head = t

\* number of accepted items not yet returned by a pop
Unpopped == Len(pushed) - Len(popped)

\* the items stored from index h up to (not including) index t
RECURSIVE RingContents(_, _, _)
RingContents(buf, h, t) ==
    IF h = t THEN <<>> ELSE <<buf[h]>> \o RingContents(buf, increment(h), t)

InitQueue ==
    /\ head_ = 0
    /\ tail_ = 0
    /\ buffer_ = [i \in 0..(QSize - 1) |-> NoItem]
    /\ p_pc = "idle"
    /\ p_item = NoItem
    /\ p_current_tail = 0
    /\ c_pc = "idle"
    /\ c_current_head = 0
    /\ c_item = NoItem
    /\ nextItem = 1
    /\ pushed = <<>>
    /\ popped = <<>>
    /\ lastPush = [ok |-> "none", unpopped |-> 0]
    /\ lastPop = [ok |-> "none", unpopped |-> 0]

\* push(), line 28: const auto current_tail = tail_.load();
PushLoadTail ==
    /\ p_pc = "idle"
    /\ nextItem <= MaxItems
    /\ p_item' = nextItem
    /\ nextItem' = nextItem + 1
    /\ p_current_tail' = tail_
    /\ p_pc' = "load_head"
    /\ UNCHANGED <<head_, tail_, buffer_, c_pc, c_current_head, c_item,
                   pushed, popped, lastPush, lastPop>>

\* push(), lines 29-30 and 35: next_tail = increment(current_tail);
\* if (next_tail != head_.load()) ... else return false
PushLoadHead ==
    /\ p_pc = "load_head"
    /\ IF QueueFull(increment(p_current_tail), head_)
         THEN /\ p_pc' = "idle"
              /\ lastPush' = [ok |-> "false", unpopped |-> Unpopped]
         ELSE /\ p_pc' = "write"
              /\ UNCHANGED lastPush
    /\ UNCHANGED <<head_, tail_, buffer_, p_item, p_current_tail, c_pc,
                   c_current_head, c_item, nextItem, pushed, popped, lastPop>>

\* push(), line 31: buffer_[current_tail] = item;
PushWrite ==
    /\ p_pc = "write"
    /\ buffer_' = [buffer_ EXCEPT ![p_current_tail] = p_item]
    /\ p_pc' = "store_tail"
    /\ UNCHANGED <<head_, tail_, p_item, p_current_tail, c_pc, c_current_head,
                   c_item, nextItem, pushed, popped, lastPush, lastPop>>

\* push(), lines 32-33: tail_.store(next_tail); return true;
PushStoreTail ==
    /\ p_pc = "store_tail"
    /\ tail_' = increment(p_current_tail)
    /\ lastPush' = [ok |-> "true", unpopped |-> Unpopped]
    /\ pushed' = Append(pushed, p_item)
    /\ p_pc' = "idle"
    /\ UNCHANGED <<head_, buffer_, p_item, p_current_tail, c_pc,
                   c_current_head, c_item, nextItem, popped, lastPop>>

\* pop(), line 39: const auto current_head = head_.load();
PopLoadHead ==
    /\ c_pc = "idle"
    /\ c_current_head' = head_
    /\ c_pc' = "load_tail"
    /\ UNCHANGED <<head_, tail_, buffer_, p_pc, p_item, p_current_tail,
                   c_item, nextItem, pushed, popped, lastPush, lastPop>>

\* pop(), lines 40-42: if (current_head == tail_.load()) return false;
PopLoadTail ==
    /\ c_pc = "load_tail"
    /\ IF QueueEmpty(c_current_head, tail_)
         THEN /\ c_pc' = "idle"
              /\ lastPop' = [ok |-> "false", unpopped |-> Unpopped]
         ELSE /\ c_pc' = "read"
              /\ lastPop' = [ok |-> "pending", unpopped |-> Unpopped]
    /\ UNCHANGED <<head_, tail_, buffer_, p_pc, p_item, p_current_tail,
                   c_current_head, c_item, nextItem, pushed, popped, lastPush>>

\* pop(), line 43: item = buffer_[current_head];
PopRead ==
    /\ c_pc = "read"
    /\ c_item' = buffer_[c_current_head]
    /\ c_pc' = "store_head"
    /\ UNCHANGED <<head_, tail_, buffer_, p_pc, p_item, p_current_tail,
                   c_current_head, nextItem, pushed, popped, lastPush, lastPop>>

\* pop(), lines 44-45: head_.store(increment(current_head)); return true;
PopStoreHead ==
    /\ c_pc = "store_head"
    /\ head_' = increment(c_current_head)
    /\ popped' = Append(popped, c_item)
    /\ lastPop' = [ok |-> "true", unpopped |-> lastPop.unpopped]
    /\ c_pc' = "idle"
    /\ UNCHANGED <<tail_, buffer_, p_pc, p_item, p_current_tail,
                   c_current_head, c_item, nextItem, pushed, lastPush>>


(***************************************************************************)
(* Part 2: RiskManager                                                     *)
(***************************************************************************)
\* std::chrono::seconds(1) in clock ticks
OneSecond == 2
\* std::chrono::seconds(5)
FiveSeconds == 5 * OneSecond
\* the 24 hours of monitoringLoop()'s daily reset
TwentyFourHours == 24 * 3600 * OneSecond

\* loadConfiguration(): double position_limit = 1.0, set for ETHUSDT
PosLimit == 1
\* static constexpr size_t MAX_RISK_EVENTS (1000 in the source), scaled down
MAX_RISK_EVENTS == 2

\* |net position| explored by updatePosition
MaxPos == PosLimit
\* |current_pnl_| and |daily_pnl_| explored by updatePnL
MaxPnl == DailyLossLimit
\* number of order timestamps the model lets recent_orders_ hold
MaxRecent == RateLimit

Symbols == {"ETH-USD", "ETHUSDT"}
\* the symbol whose fills are reported through updatePosition
PositionSymbols == {"ETHUSDT"}
Sides == {"BUY", "SELL"}
Quantities == 1..MaxPos
\* quantities of the orders canPlaceOrder is asked about: up to one unit more
\* than the position limit
OrderQuantities == 1..(PosLimit + 1)
Prices == {1, 2}
PnlChanges == {-2, -1, 1, 2}
ManualReasons == {"Manual halt"}

RiskEvent(type, level) == [type |-> type, level |-> level]

\* recordRiskEvent(): push_back, then keep only the most recent events
recordRiskEvent(log, event) ==
    LET l == Append(log, event)
    IN IF Len(l) > MAX_RISK_EVENTS
         THEN SubSeq(l, Len(l) - MAX_RISK_EVENTS + 1, Len(l))
         ELSE l

RECURSIVE recordRiskEvents(_, _)
recordRiskEvents(log, events) ==
    IF events = <<>> THEN log
    ELSE recordRiskEvents(recordRiskEvent(log, Head(events)), Tail(events))

\* positions_.find(symbol), 0.0 when absent
PositionOf(symbol) ==
    IF symbol \in DOMAIN positions_ THEN positions_[symbol] ELSE 0

\* (side == "BUY") ? quantity : -quantity
SignedQuantity(side, quantity) == IF side = "BUY" THEN quantity ELSE -quantity

\* checkPositionLimits()
checkPositionLimitsMutant(symbol, side, quantity) ==
    IF symbol \notin DOMAIN position_limits_ THEN TRUE
    ELSE Abs(PositionOf(symbol)) <= position_limits_[symbol]
checkPositionLimits(symbol, side, quantity) ==
    IF symbol \notin DOMAIN position_limits_ THEN TRUE
    ELSE Abs(PositionOf(symbol) + SignedQuantity(side, quantity))
             <= position_limits_[symbol]

\* daily_pnl_ <= max_daily_loss_limit_
DailyLossBreachedMutant(daily) == daily < max_daily_loss_limit_
DailyLossBreached(daily) == daily <= max_daily_loss_limit_

\* peak_pnl_ - current_pnl_ >= std::abs(max_drawdown_limit_)
DrawdownBreachedMutant(peak, current) ==
    peak - current > Abs(max_drawdown_limit_)
DrawdownBreached(peak, current) == peak - current >= Abs(max_drawdown_limit_)

\* checkFinancialLimits()
checkFinancialLimits ==
    /\ ~DailyLossBreached(daily_pnl_)
    /\ ~DrawdownBreached(peak_pnl_, current_pnl_)

\* std::count_if(recent_orders_, timestamp > one_second_ago)
OrdersLastSecond(orders, t) ==
    Len(SelectSeq(orders, LAMBDA ts : ts > t - OneSecond))

\* checkOperationalLimits()
checkOperationalLimits(orders, t) ==
    OrdersLastSecond(orders, t) < max_orders_per_second_

\* the erase(remove_if(timestamp < five_seconds_ago)) of updateOrderRate()
\* and monitoringLoop()
PruneOrdersMutant(orders, t) ==
    SelectSeq(orders, LAMBDA ts : ~(ts < t))
PruneOrders(orders, t) ==
    SelectSeq(orders, LAMBDA ts : ~(ts < t - FiveSeconds))

\* canPlaceOrder(): the decision, the rejection reason and the events it
\* records (price is accepted and not read)
canPlaceOrderMutant(symbol, side, price, quantity) ==
    IF ~checkPositionLimits(symbol, side, quantity)
      THEN [allowed |-> FALSE,
            reason |-> <<"Position limit exceeded for ", symbol>>,
            events |-> <<RiskEvent("POSITION_LIMIT_EXCEEDED", "CRITICAL")>>]
    ELSE IF ~checkFinancialLimits
      THEN [allowed |-> FALSE,
            reason |-> <<"Financial risk limits exceeded">>,
            events |-> <<>>]
    ELSE IF ~checkOperationalLimits(recent_orders_, now)
      THEN [allowed |-> FALSE,
            reason |-> <<"Order rate limit exceeded">>,
            events |-> <<RiskEvent("ORDER_RATE_LIMIT_EXCEEDED", "WARNING")>>]
    ELSE [allowed |-> TRUE, reason |-> <<>>, events |-> <<>>]
canPlaceOrder(symbol, side, price, quantity) ==
    IF circuit_breaker_active_
      THEN [allowed |-> FALSE,
            reason |-> <<"Circuit breaker active: ", circuit_breaker_reason_>>,
            events |-> <<>>]
    ELSE IF ~checkPositionLimits(symbol, side, quantity)
      THEN [allowed |-> FALSE,
            reason |-> <<"Position limit exceeded for ", symbol>>,
            events |-> <<RiskEvent("POSITION_LIMIT_EXCEEDED", "CRITICAL")>>]
    ELSE IF ~checkFinancialLimits
      THEN [allowed |-> FALSE,
            reason |-> <<"Financial risk limits exceeded">>,
            events |-> <<>>]
    ELSE IF ~checkOperationalLimits(recent_orders_, now)
      THEN [allowed |-> FALSE,
            reason |-> <<"Order rate limit exceeded">>,
            events |-> <<RiskEvent("ORDER_RATE_LIMIT_EXCEEDED", "WARNING")>>]
    ELSE [allowed |-> TRUE, reason |-> <<>>, events |-> <<>>]

\* updatePnL(): the breaker flag after the two limit checks
BreakerAfterPnLMutant(active, dailyHit, drawdownHit) == dailyHit \/ drawdownHit
BreakerAfterPnL(active, dailyHit, drawdownHit) ==
    IF dailyHit \/ drawdownHit THEN TRUE ELSE active

\* updatePnL(): the reason left by its triggerCircuitBreaker calls; the
\* drawdown check runs second and overwrites the daily-loss reason
ReasonAfterPnL(reason, dailyHit, drawdownHit) ==
    IF drawdownHit THEN "Drawdown limit exceeded"
    ELSE IF dailyHit THEN "Daily loss limit exceeded"
    ELSE reason

\* updatePnL(): the events recorded, in program order
EventsOfPnL(daily, dailyHit, drawdownHit) ==
    (IF dailyHit
       THEN <<RiskEvent("DAILY_LOSS_LIMIT_EXCEEDED", "EMERGENCY"),
              RiskEvent("CIRCUIT_BREAKER_TRIGGERED", "EMERGENCY")>>
       ELSE <<>>)
    \o (IF drawdownHit
          THEN <<RiskEvent("DRAWDOWN_LIMIT_EXCEEDED", "EMERGENCY"),
                 RiskEvent("CIRCUIT_BREAKER_TRIGGERED", "EMERGENCY")>>
          ELSE <<>>)
    \o (IF 10 * daily <= 7 * max_daily_loss_limit_
          THEN <<RiskEvent("PNL_WARNING", "WARNING")>>
          ELSE <<>>)

InitRisk ==
    /\ circuit_breaker_active_ = FALSE
    /\ circuit_breaker_reason_ = ""
    /\ positions_ = <<>>
    /\ position_limits_ = ("ETHUSDT" :> PosLimit)
    /\ current_pnl_ = 0
    /\ daily_pnl_ = 0
    /\ peak_pnl_ = 0
    /\ max_daily_loss_limit_ = -Abs(DailyLossLimit)
    /\ max_drawdown_limit_ = -Abs(DrawdownLimit)
    /\ daily_reset_time_ = 0
    /\ recent_orders_ = <<>>
    /\ max_orders_per_second_ = RateLimit
    /\ risk_events_ = <<RiskEvent("SYSTEM_HEALTH_CRITICAL", "INFO")>>
    /\ now = 0
    /\ monitor_pc = "top"
    /\ monitor_now = 0
    /\ lastOp = [op |-> "initialize"]

\* bool canPlaceOrder(symbol, side, price, quantity, rejection_reason)
CanPlaceOrderCall(symbol, side, price, quantity) ==
    LET r == canPlaceOrder(symbol, side, price, quantity)
    IN /\ risk_events_' = recordRiskEvents(risk_events_, r.events)
       /\ lastOp' = [op |-> "canPlaceOrder", symbol |-> symbol, side |-> side,
                     quantity |-> quantity, allowed |-> r.allowed,
                     reason |-> r.reason, events |-> r.events]
       /\ UNCHANGED <<circuit_breaker_active_, circuit_breaker_reason_,
                      positions_, position_limits_, current_pnl_, daily_pnl_,
                      peak_pnl_, max_daily_loss_limit_, max_drawdown_limit_,
                      recent_orders_, max_orders_per_second_, now, monitor_pc,
                      monitor_now,
                   daily_reset_time_>>

\* void updatePosition(symbol, quantity, price, side)
updatePosition(symbol, quantity, price, side) ==
    LET new_position == PositionOf(symbol) + SignedQuantity(side, quantity)
        warn == /\ symbol \in DOMAIN position_limits_
                /\ 5 * Abs(new_position) > 4 * position_limits_[symbol]
        events == IF warn THEN <<RiskEvent("POSITION_WARNING", "WARNING")>>
                  ELSE <<>>
    IN /\ positions_' = (symbol :> new_position) @@ positions_
       /\ risk_events_' = recordRiskEvents(risk_events_, events)
       /\ lastOp' = [op |-> "updatePosition", events |-> events]
       /\ UNCHANGED <<circuit_breaker_active_, circuit_breaker_reason_,
                      position_limits_, current_pnl_, daily_pnl_, peak_pnl_,
                      max_daily_loss_limit_, max_drawdown_limit_,
                      recent_orders_, max_orders_per_second_, now, monitor_pc,
                      monitor_now,
                   daily_reset_time_>>

\* void updatePnL(double pnl_change)
updatePnL(pnl_change) ==
    LET current == current_pnl_ + pnl_change
        daily == daily_pnl_ + pnl_change
        peak == IF current > peak_pnl_ THEN current ELSE peak_pnl_
        dailyHit == DailyLossBreached(daily)
        drawdownHit == DrawdownBreached(peak, current)
        events == EventsOfPnL(daily, dailyHit, drawdownHit)
    IN /\ current_pnl_' = current
       /\ daily_pnl_' = daily
       /\ peak_pnl_' = peak
       /\ circuit_breaker_active_' =
              BreakerAfterPnL(circuit_breaker_active_, dailyHit, drawdownHit)
       /\ circuit_breaker_reason_' =
              ReasonAfterPnL(circuit_breaker_reason_, dailyHit, drawdownHit)
       /\ risk_events_' = recordRiskEvents(risk_events_, events)
       /\ lastOp' = [op |-> "updatePnL", events |-> events]
       /\ UNCHANGED <<positions_, position_limits_, max_daily_loss_limit_,
                      max_drawdown_limit_, recent_orders_,
                      max_orders_per_second_, now, monitor_pc, monitor_now,
                   daily_reset_time_>>

\* void recordOrderPlaced() -> updateOrderRate()
recordOrderPlaced ==
    /\ recent_orders_' = PruneOrders(Append(recent_orders_, now), now)
    /\ lastOp' = [op |-> "recordOrderPlaced",
                  removed |-> Len(recent_orders_) + 1 - Len(recent_orders_')]
    /\ UNCHANGED <<circuit_breaker_active_, circuit_breaker_reason_,
                   positions_, position_limits_, current_pnl_, daily_pnl_,
                   peak_pnl_, max_daily_loss_limit_, max_drawdown_limit_,
                   max_orders_per_second_, risk_events_, now, monitor_pc,
                   monitor_now,
                   daily_reset_time_>>

\* void triggerCircuitBreaker(reason)
triggerCircuitBreaker(reason) ==
    /\ circuit_breaker_active_' = TRUE
    /\ circuit_breaker_reason_' = reason
    /\ risk_events_' = recordRiskEvent(risk_events_,
                           RiskEvent("CIRCUIT_BREAKER_TRIGGERED", "EMERGENCY"))
    /\ lastOp' = [op |-> "triggerCircuitBreaker"]
    /\ UNCHANGED <<positions_, position_limits_, current_pnl_, daily_pnl_,
                   peak_pnl_, max_daily_loss_limit_, max_drawdown_limit_,
                   recent_orders_, max_orders_per_second_, now, monitor_pc,
                   monitor_now,
                   daily_reset_time_>>

\* void resetCircuitBreaker()
resetCircuitBreaker ==
    /\ circuit_breaker_active_' = FALSE
    /\ circuit_breaker_reason_' = ""
    /\ risk_events_' = recordRiskEvent(risk_events_,
                           RiskEvent("CIRCUIT_BREAKER_TRIGGERED", "INFO"))
    /\ lastOp' = [op |-> "resetCircuitBreaker"]
    /\ UNCHANGED <<positions_, position_limits_, current_pnl_, daily_pnl_,
                   peak_pnl_, max_daily_loss_limit_, max_drawdown_limit_,
                   recent_orders_, max_orders_per_second_, now, monitor_pc,
                   monitor_now,
                   daily_reset_time_>>

\* void resetDailyLimits()
resetDailyLimits ==
    /\ daily_pnl_' = 0
    /\ daily_reset_time_' = now
    /\ risk_events_' = recordRiskEvent(risk_events_,
                           RiskEvent("SYSTEM_HEALTH_CRITICAL", "INFO"))
    /\ lastOp' = [op |-> "resetDailyLimits"]
    /\ UNCHANGED <<circuit_breaker_active_, circuit_breaker_reason_,
                   positions_, position_limits_, current_pnl_, peak_pnl_,
                   max_daily_loss_limit_, max_drawdown_limit_, recent_orders_,
                   max_orders_per_second_, now, monitor_pc, monitor_now>>

\* monitoringLoop(), lines 579-584: now = system_clock::now(); reset the daily
\* limits when 24 hours have passed since daily_reset_time_
MonitorWake ==
    /\ monitor_pc = "top"
    /\ monitor_now' = now
    /\ monitor_pc' = "prune"
    /\ IF now - daily_reset_time_ >= TwentyFourHours
         THEN /\ daily_pnl_' = 0
              /\ daily_reset_time_' = now
              /\ risk_events_' = recordRiskEvent(risk_events_,
                                     RiskEvent("SYSTEM_HEALTH_CRITICAL", "INFO"))
              /\ lastOp' = [op |-> "resetDailyLimits"]
         ELSE /\ UNCHANGED <<daily_pnl_, daily_reset_time_, risk_events_>>
              /\ lastOp' = [op |-> "monitorWake"]
    /\ UNCHANGED <<circuit_breaker_active_, circuit_breaker_reason_,
                   positions_, position_limits_, current_pnl_, peak_pnl_,
                   max_daily_loss_limit_, max_drawdown_limit_, recent_orders_,
                   max_orders_per_second_, now>>

\* monitoringLoop(), lines 587-596: erase the timestamps older than five
\* seconds before the loop's own "now"
MonitorPrune ==
    /\ monitor_pc = "prune"
    /\ recent_orders_' = PruneOrders(recent_orders_, monitor_now)
    /\ monitor_pc' = "sleep"
    /\ lastOp' = [op |-> "monitorPrune",
                  removed |-> Len(recent_orders_) - Len(recent_orders_')]
    /\ UNCHANGED <<circuit_breaker_active_, circuit_breaker_reason_,
                   positions_, position_limits_, current_pnl_, daily_pnl_,
                   peak_pnl_, max_daily_loss_limit_, max_drawdown_limit_,
                   daily_reset_time_, max_orders_per_second_, risk_events_,
                   now, monitor_now>>

\* monitoringLoop(), line 599: sleep_for(seconds(1)) returns
MonitorSleep ==
    /\ monitor_pc = "sleep"
    /\ now >= monitor_now + OneSecond
    /\ monitor_pc' = "top"
    /\ lastOp' = [op |-> "monitorSleep"]
    /\ UNCHANGED <<circuit_breaker_active_, circuit_breaker_reason_,
                   positions_, position_limits_, current_pnl_, daily_pnl_,
                   peak_pnl_, max_daily_loss_limit_, max_drawdown_limit_,
                   daily_reset_time_, recent_orders_, max_orders_per_second_,
                   risk_events_, now, monitor_now>>

\* the system clock advances by one tick
Tick ==
    /\ now < MaxTime
    /\ now' = now + 1
    /\ lastOp' = [op |-> "tick"]
    /\ UNCHANGED <<circuit_breaker_active_, circuit_breaker_reason_,
                   positions_, position_limits_, current_pnl_, daily_pnl_,
                   peak_pnl_, max_daily_loss_limit_, max_drawdown_limit_,
                   daily_reset_time_, recent_orders_, max_orders_per_second_,
                   risk_events_, monitor_pc, monitor_now>>

(***************************************************************************)
(* Part 3: HFTEngine workers and the OrderManager PnL path                 *)
(* Prices are whole ticks and quantities whole order units.                *)
(***************************************************************************)
\* (bid, ask) quotes the market data feed delivers
MarketQuotes == {<<1, 2>>, <<4, 5>>}

EngineSymbol == "ETH-USD"

\* HFTSignal generate_signal(market_data): both sides are always quoted, on
\* num_levels levels, around the market's bid and ask
generate_signal(quote) ==
    [place_bid |-> TRUE, place_ask |-> TRUE, num_levels |-> NumLevels,
     bid_price |-> quote[1], ask_price |-> quote[2],
     bid_quantity |-> 1, ask_quantity |-> 1]

NoSignal == [place_bid |-> FALSE, place_ask |-> FALSE, num_levels |-> 0,
             bid_price |-> 0, ask_price |-> 0,
             bid_quantity |-> 0, ask_quantity |-> 0]

\* bool check_risk_limits(order)
check_risk_limits(side, quantity) ==
    IF risk_breach_ THEN FALSE
    ELSE LET position_change == IF side = "BUY" THEN quantity ELSE -quantity
             new_position == current_position_ + position_change
         IN ~(Abs(new_position) > MaxInventory)

\* place_order_ladder(): the guard in front of one child order
LadderSends(place, side, quantity) ==
    place /\ ~risk_breach_ /\ check_risk_limits(side, quantity)

\* std::array<HFTOrder, 100> active_orders_, scaled down
ActiveOrdersSize == 4

\* cancel_stale_orders(): stale_threshold, 100 ms, in clock ticks
StaleThreshold == 1

\* bool send_order(order): the order, status 'N', is stored in active_orders_
\* if there is room; a simulated fill pushes a filled copy of it onto
\* inbound_order_queue_
send_order(side, price, quantity, filled) ==
    /\ active_order_count_' = active_order_count_ + 1
    /\ active_orders_' =
          IF active_order_count_ < ActiveOrdersSize
            THEN Append(active_orders_, [status |-> "N", timestamp |-> now])
            ELSE active_orders_
    /\ inbound_order_queue_' =
          IF filled
            THEN Append(inbound_order_queue_,
                        [side |-> side, price |-> price, quantity |-> quantity])
            ELSE inbound_order_queue_
    /\ lastSend' = [sent |-> TRUE, side |-> side, price |-> price,
                    quantity |-> quantity,
                    gate_allowed |->
                        canPlaceOrder(EngineSymbol, side, price,
                                      quantity).allowed,
                    breaker_active |-> circuit_breaker_active_]

\* OrderManager::validateOrder(): the least and the greatest order quantity
\* and price it accepts, in units of the least ones
MinOrderQuantity == 1
MaxOrderQuantity == 3
MinOrderPrice == 1
MaxOrderPrice == 4

\* OrderManager::validateOrder(): side, price and quantity must be sensible
validateOrder(side, price, quantity) ==
    /\ side \in Sides
    /\ ~(price <= 0)
    /\ ~(quantity <= 0)
    /\ ~(quantity < MinOrderQuantity)
    /\ ~(quantity > MaxOrderQuantity)
    /\ ~(price < MinOrderPrice \/ price > MaxOrderPrice)

\* OrderManager::updatePositionAndPnL(order): current_position_ +=
\* quantity_signed
PositionAfterMutant(position, side, quantity) == position + quantity
PositionAfter(position, side, quantity) ==
    position + (IF side = "BUY" THEN quantity ELSE -quantity)

\* OrderManager::updatePositionAndPnL(order): the realized PnL of the fill
RealizedPnLMutant(side, price, quantity) ==
    IF side = "SELL" /\ previous_position_ > 0
      THEN price - avg_buy_price_
      ELSE 0
RealizedPnL(side, price, quantity) ==
    IF side = "SELL" /\ previous_position_ > 0
      THEN (price - avg_buy_price_) * quantity
      ELSE 0

\* OrderManager::updatePositionAndPnL(order): the average buy price after it
AvgBuyPriceAfterMutant(side, price, quantity) ==
    IF side = "BUY"
      THEN IF om_current_position_ + quantity > 0
             THEN (avg_buy_price_ + price) \div 2
             ELSE price
      ELSE avg_buy_price_
AvgBuyPriceAfter(side, price, quantity) ==
    LET position == om_current_position_
                       + (IF side = "BUY" THEN quantity ELSE -quantity)
    IN IF side = "BUY"
         THEN IF position > 0
                THEN (avg_buy_price_ * Abs(previous_position_)
                         + quantity * price) \div Abs(position)
                ELSE price
         ELSE avg_buy_price_

\* the members of a constructed engine other than running_
InitMembers ==
    /\ risk_breach_ = FALSE
    /\ current_position_ = 0
    /\ orders_filled = 0
    /\ inbound_order_queue_ = <<>>
    /\ om_current_position_ = 0
    /\ previous_position_ = 0
    /\ avg_buy_price_ = 0
    /\ cumulative_pnl_ = 0
    /\ t_pc = "loop"
    /\ t_signal = NoSignal
    /\ t_level = 0
    /\ ladders = 0
    /\ r_pc = "top"
    /\ r_current_pnl = 0
    /\ r_can_buy = FALSE
    /\ last_pnl = 0
    /\ lastSend = [sent |-> FALSE]
    /\ buy_trades_ = 0
    /\ sell_trades_ = 0
    /\ fills = <<>>
    /\ lastFill = [valid |-> FALSE]
    /\ tracked_orders_ = {}
    /\ orders_placed_ = 0
    /\ active_orders_ = <<>>
    /\ active_order_count_ = 0

InitEngine ==
    /\ running_ = TRUE
    /\ InitMembers

\* void cancel_stale_orders(): every record that is still 'N' and older than
\* the threshold becomes 'C'.  Nothing in the program calls it.
cancel_stale_orders ==
    /\ active_orders_' =
          [i \in 1..Len(active_orders_) |->
              IF /\ active_orders_[i].status = "N"
                 /\ now - active_orders_[i].timestamp > StaleThreshold
                THEN [active_orders_[i] EXCEPT !.status = "C"]
                ELSE active_orders_[i]]
    /\ UNCHANGED active_order_count_

\* OrderManager::updatePositionAndPnL(order), under pnl_mutex_; it calls
\* RiskManager::updatePnL when the realized PnL is not zero
updatePositionAndPnL(side, price, quantity) ==
    LET realized_pnl == RealizedPnL(side, price, quantity)
        position == PositionAfter(om_current_position_, side, quantity)
    IN /\ om_current_position_' = position
       /\ avg_buy_price_' = AvgBuyPriceAfter(side, price, quantity)
       /\ cumulative_pnl_' = cumulative_pnl_ + realized_pnl
       /\ previous_position_' = position
       /\ IF realized_pnl # 0
            THEN updatePnL(realized_pnl)
            ELSE UNCHANGED riskVars

\* OrderManager::updateSessionStats(order, spread_bps): the trade counts
updateSessionStats(side) ==
    /\ buy_trades_' = IF side = "BUY" THEN buy_trades_ + 1 ELSE buy_trades_
    /\ sell_trades_' = IF side = "SELL" THEN sell_trades_ + 1 ELSE sell_trades_

\* generateClientOrderId(): the values dis(gen) can return, of the 900000
\* between 100000 and 999999
Draws == {100000, 999999}

\* generateClientOrderId(): "HFT_" + to_string(timestamp) + "_" +
\* to_string(dis(gen)), the timestamp being the clock reading in its units
generateClientOrderId(timestamp, draw) == <<"HFT", timestamp, draw>>

\* OrderManager::trackOrder(order), under orders_mutex_:
\* tracked_orders_[order.order_id] = order
trackOrder(order_id) ==
    /\ tracked_orders_' = tracked_orders_ \cup {order_id}
    /\ orders_placed_' = orders_placed_ + 1

\* OrderManager::executeOrder(symbol, side, price, quantity): validateOrder,
\* generateClientOrderId, trackOrder, then simulateOrderFill -> logTrade ->
\* updatePositionAndPnL, then updateSessionStats; draw is what dis(gen) returns
executeOrder(side, price, quantity, draw) ==
    IF validateOrder(side, price, quantity)
      THEN /\ trackOrder(generateClientOrderId(now, draw))
           /\ updatePositionAndPnL(side, price, quantity)
           /\ updateSessionStats(side)
      ELSE /\ UNCHANGED <<om_current_position_, previous_position_,
                          avg_buy_price_, cumulative_pnl_, buy_trades_,
                          sell_trades_, tracked_orders_, orders_placed_>>
           /\ UNCHANGED riskVars

\* OrderManager::generateSessionSummary(): the figures of the summary
SessionSummary ==
    [total_trades |-> buy_trades_ + sell_trades_,
     buy_trades |-> buy_trades_,
     sell_trades |-> sell_trades_,
     final_position |-> om_current_position_,
     final_pnl |-> cumulative_pnl_]

\* order_engine_worker(): "while (running_.load())" ends the loop
TraderExit ==
    /\ UNCHANGED orderVars
    /\ UNCHANGED sessionVars
    /\ t_pc = "loop"
    /\ ~running_
    /\ t_pc' = "done"
    /\ UNCHANGED <<running_, risk_breach_, current_position_, orders_filled,
                   inbound_order_queue_, om_current_position_,
                   previous_position_, avg_buy_price_, cumulative_pnl_,
                   t_signal, t_level, ladders, r_pc, r_current_pnl, r_can_buy,
                   last_pnl, lastSend>>
    /\ UNCHANGED riskVars

\* order_engine_worker(): a market data update was popped, or the order timer
\* fired: generate_signal and enter place_order_ladder
TraderSignal(quote) ==
    /\ UNCHANGED orderVars
    /\ UNCHANGED sessionVars
    /\ t_pc = "loop"
    /\ running_
    /\ ladders < MaxLadders
    /\ t_signal' = generate_signal(quote)
    /\ t_level' = 0
    /\ ladders' = ladders + 1
    /\ t_pc' = "bid"
    /\ UNCHANGED <<running_, risk_breach_, current_position_, orders_filled,
                   inbound_order_queue_, om_current_position_,
                   previous_position_, avg_buy_price_, cumulative_pnl_,
                   r_pc, r_current_pnl, r_can_buy, last_pnl, lastSend>>
    /\ UNCHANGED riskVars

\* order_engine_worker(): no market data and the order timer not due
TraderIdle ==
    /\ UNCHANGED orderVars
    /\ UNCHANGED sessionVars
    /\ t_pc = "loop"
    /\ running_
    /\ t_pc' = "responses"
    /\ UNCHANGED <<running_, risk_breach_, current_position_, orders_filled,
                   inbound_order_queue_, om_current_position_,
                   previous_position_, avg_buy_price_, cumulative_pnl_,
                   t_signal, t_level, ladders, r_pc, r_current_pnl, r_can_buy,
                   last_pnl, lastSend>>
    /\ UNCHANGED riskVars

\* place_order_ladder(), lines 516-535: the bid order of one level
TraderBid(filled) ==
    /\ UNCHANGED sessionVars
    /\ t_pc = "bid"
    /\ IF LadderSends(t_signal.place_bid, "BUY", t_signal.bid_quantity)
         THEN send_order("BUY", t_signal.bid_price, t_signal.bid_quantity,
                         filled)
         ELSE UNCHANGED <<inbound_order_queue_, lastSend, orderVars>>
    /\ t_pc' = "ask"
    /\ UNCHANGED <<running_, risk_breach_, current_position_, orders_filled,
                   om_current_position_, previous_position_, avg_buy_price_,
                   cumulative_pnl_, t_signal, t_level, ladders, r_pc,
                   r_current_pnl, r_can_buy, last_pnl>>
    /\ UNCHANGED riskVars

\* place_order_ladder(), lines 538-557: the ask order of one level, then the
\* next level or the end of the ladder
TraderAsk(filled) ==
    /\ UNCHANGED sessionVars
    /\ t_pc = "ask"
    /\ IF LadderSends(t_signal.place_ask, "SELL", t_signal.ask_quantity)
         THEN send_order("SELL", t_signal.ask_price, t_signal.ask_quantity,
                         filled)
         ELSE UNCHANGED <<inbound_order_queue_, lastSend, orderVars>>
    /\ IF t_level + 1 < t_signal.num_levels
         THEN t_level' = t_level + 1 /\ t_pc' = "bid"
         ELSE t_level' = 0 /\ t_pc' = "responses"
    /\ UNCHANGED <<running_, risk_breach_, current_position_, orders_filled,
                   om_current_position_, previous_position_, avg_buy_price_,
                   cumulative_pnl_, t_signal, ladders, r_pc, r_current_pnl,
                   r_can_buy, last_pnl>>
    /\ UNCHANGED riskVars

\* process_order_response(response) of the filled order at the head of the
\* inbound queue: metrics_.orders_filled, the engine's position, then
\* OrderManager::placeOrder(...).get() ->
\* executeOrder -> simulateOrderFill -> logTrade -> updatePositionAndPnL, which
\* calls RiskManager::updatePnL when the realized PnL is not zero
process_order_response(draw) ==
    LET response == Head(inbound_order_queue_)
        signed == IF response.side = "BUY" THEN response.quantity
                  ELSE -response.quantity
    IN /\ inbound_order_queue_' = Tail(inbound_order_queue_)
       /\ orders_filled' = orders_filled + 1
       /\ current_position_' = current_position_ + signed
       /\ executeOrder(response.side, response.price, response.quantity, draw)

\* order_engine_worker(), lines 314-317: while the inbound queue pops, the
\* filled order is processed
TraderResponse(draw) ==
    /\ UNCHANGED orderVars
    /\ t_pc = "responses"
    /\ inbound_order_queue_ # <<>>
    /\ process_order_response(draw)
    /\ UNCHANGED <<running_, risk_breach_, t_pc, t_signal, t_level, ladders,
                   r_pc, r_current_pnl, r_can_buy, last_pnl, lastSend>>
    /\ UNCHANGED <<fills, lastFill>>

\* order_engine_worker(): inbound_order_queue_.pop() returns false
TraderResponsesDone ==
    /\ UNCHANGED orderVars
    /\ UNCHANGED sessionVars
    /\ t_pc = "responses"
    /\ inbound_order_queue_ = <<>>
    /\ t_pc' = "loop"
    /\ UNCHANGED <<running_, risk_breach_, current_position_, orders_filled,
                   inbound_order_queue_, om_current_position_,
                   previous_position_, avg_buy_price_, cumulative_pnl_,
                   t_signal, t_level, ladders, r_pc, r_current_pnl, r_can_buy,
                   last_pnl, lastSend>>
    /\ UNCHANGED riskVars

\* risk_management_worker(), lines 330-341: loop test, then read the
\* OrderManager's PnL
RiskTop ==
    /\ UNCHANGED orderVars
    /\ UNCHANGED sessionVars
    /\ r_pc = "top"
    /\ IF running_
         THEN r_current_pnl' = cumulative_pnl_ /\ r_pc' = "breaker"
         ELSE UNCHANGED r_current_pnl /\ r_pc' = "stopped"
    /\ UNCHANGED <<running_, risk_breach_, current_position_, orders_filled,
                   inbound_order_queue_, om_current_position_,
                   previous_position_, avg_buy_price_, cumulative_pnl_, t_pc,
                   t_signal, t_level, ladders, r_can_buy, last_pnl, lastSend>>
    /\ UNCHANGED riskVars

\* risk_management_worker(), lines 343-358: isCircuitBreakerActive() or
\* getCurrentRiskStatus() == EMERGENCY leads to emergency_stop(), which
\* stores risk_breach_ = true and, in stop(), running_ = false
RiskBreakerCheck ==
    /\ UNCHANGED orderVars
    /\ UNCHANGED sessionVars
    /\ r_pc = "breaker"
    /\ IF circuit_breaker_active_
         THEN /\ risk_breach_' = TRUE
              /\ running_' = FALSE
              /\ r_pc' = "stopped"
         ELSE /\ UNCHANGED <<risk_breach_, running_>>
              /\ r_pc' = "gate_buy"
    /\ UNCHANGED <<current_position_, orders_filled, inbound_order_queue_,
                   om_current_position_, previous_position_, avg_buy_price_,
                   cumulative_pnl_, t_pc, t_signal, t_level, ladders,
                   r_current_pnl, r_can_buy, last_pnl, lastSend>>
    /\ UNCHANGED riskVars

\* risk_management_worker(), lines 362-363: can_buy
RiskGateBuy(price) ==
    /\ UNCHANGED orderVars
    /\ UNCHANGED sessionVars
    /\ r_pc = "gate_buy"
    /\ CanPlaceOrderCall(EngineSymbol, "BUY", price, 1)
    /\ r_can_buy' = canPlaceOrder(EngineSymbol, "BUY", price, 1).allowed
    /\ r_pc' = "gate_sell"
    /\ UNCHANGED <<running_, risk_breach_, current_position_, orders_filled,
                   inbound_order_queue_, om_current_position_,
                   previous_position_, avg_buy_price_, cumulative_pnl_, t_pc,
                   t_signal, t_level, ladders, r_current_pnl, last_pnl,
                   lastSend>>

\* risk_management_worker(), lines 364-372: can_sell, then risk_breach_ is
\* stored true only when both sides were rejected
RiskGateSell(price) ==
    /\ UNCHANGED orderVars
    /\ UNCHANGED sessionVars
    /\ r_pc = "gate_sell"
    /\ CanPlaceOrderCall(EngineSymbol, "SELL", price, 1)
    /\ risk_breach_' =
          (~r_can_buy /\ ~canPlaceOrder(EngineSymbol, "SELL", price, 1).allowed)
    /\ r_pc' = "pnl"
    /\ UNCHANGED <<running_, current_position_, orders_filled, inbound_order_queue_,
                   om_current_position_, previous_position_, avg_buy_price_,
                   cumulative_pnl_, t_pc, t_signal, t_level, ladders,
                   r_current_pnl, r_can_buy, last_pnl, lastSend>>

\* risk_management_worker(), lines 374-383: push the PnL delta to the
\* RiskManager, then sleep 100 ms
RiskPnL ==
    /\ UNCHANGED orderVars
    /\ UNCHANGED sessionVars
    /\ r_pc = "pnl"
    /\ LET pnl_delta == r_current_pnl - last_pnl
       IN IF pnl_delta # 0
            THEN updatePnL(pnl_delta) /\ last_pnl' = r_current_pnl
            ELSE UNCHANGED riskVars /\ UNCHANGED last_pnl
    /\ r_pc' = "top"
    /\ UNCHANGED <<running_, risk_breach_, current_position_, orders_filled,
                   inbound_order_queue_, om_current_position_,
                   previous_position_, avg_buy_price_, cumulative_pnl_, t_pc,
                   t_signal, t_level, ladders, r_current_pnl, r_can_buy,
                   lastSend>>

(***************************************************************************)
(* Part 4: HFTEngine::start(), stop(), emergency_stop() and main()         *)
(***************************************************************************)

\* the four worker threads, in the order stop() joins them
JoinOrder == <<"market_data", "order_engine", "risk", "metrics">>
Workers == {JoinOrder[i] : i \in 1..Len(JoinOrder)}

\* the calls of stop(): main() line 76, ~HFTEngine(), and emergency_stop() in
\* the risk worker
Callers == {"main", "destructor", "emergency"}

\* the worker thread a call of stop() runs on, "" for the main thread
ThreadOf(caller) == IF caller = "emergency" THEN "risk" ELSE ""

\* a call of stop() is between its entry and its return
InStop(caller) == stop_pc[caller] \notin {"idle", "returned"}

\* the state after HFTEngine::start(): four joinable worker threads
InitStop ==
    /\ running = TRUE
    /\ main_pc = "loop"
    /\ thread_state = [w \in Workers |-> "running"]
    /\ joinable = [w \in Workers |-> TRUE]
    /\ stop_pc = [c \in Callers |-> "idle"]
    /\ stop_join = [c \in Callers |-> 1]
    /\ summaries = 0
    /\ summary_early = FALSE
    /\ terminated = FALSE

\* signalHandler(signum): running = false
SignalHandler ==
    /\ ~terminated
    /\ running
    /\ running' = FALSE
    /\ UNCHANGED <<main_pc, thread_state, joinable, stop_pc, stop_join,
                   summaries, summary_early, terminated>>
    /\ UNCHANGED <<riskVars, engineVars>>

\* the RiskManager trips its breaker while the engine runs
BreakerTrips(reason) ==
    /\ ~terminated
    /\ ~circuit_breaker_active_
    /\ triggerCircuitBreaker(reason)
    /\ UNCHANGED <<stopVars, engineVars>>

\* main(), lines 67-76: the loop ends when running or engine.is_running() is
\* false, and engine.stop() is called
MainCallsStop ==
    /\ ~terminated
    /\ main_pc = "loop"
    /\ ~(running /\ running_)
    /\ main_pc' = "stop"
    /\ stop_pc' = [stop_pc EXCEPT !["main"] = "check"]
    /\ UNCHANGED <<running, thread_state, joinable, stop_join, summaries,
                   summary_early, terminated>>
    /\ UNCHANGED <<riskVars, engineVars>>

\* main(): engine goes out of scope after stop() returned; ~HFTEngine() calls
\* stop()
DestructorCallsStop ==
    /\ ~terminated
    /\ main_pc = "stop"
    /\ stop_pc["main"] = "returned"
    /\ main_pc' = "destructor"
    /\ stop_pc' = [stop_pc EXCEPT !["destructor"] = "check"]
    /\ UNCHANGED <<running, thread_state, joinable, stop_join, summaries,
                   summary_early, terminated>>
    /\ UNCHANGED <<riskVars, engineVars>>

\* ~HFTEngine() after its body: the std::thread members are destroyed, and
\* destroying a joinable std::thread calls std::terminate()
DestroyThreads ==
    /\ ~terminated
    /\ main_pc = "destructor"
    /\ stop_pc["destructor"] = "returned"
    /\ main_pc' = "members"
    /\ terminated' = (\E w \in Workers : joinable[w])
    /\ UNCHANGED <<running, thread_state, joinable, stop_pc, stop_join,
                   summaries, summary_early>>
    /\ UNCHANGED <<riskVars, engineVars>>

\* ~HFTEngine() after the threads: order_manager_ is destroyed, and
\* ~OrderManager() calls shutdown(), which calls generateSessionSummary()
DestroyOrderManager ==
    /\ ~terminated
    /\ main_pc = "members"
    /\ main_pc' = "exit"
    /\ summaries' = summaries + 1
    /\ UNCHANGED <<running, thread_state, joinable, stop_pc, stop_join,
                   summary_early, terminated>>
    /\ UNCHANGED <<riskVars, engineVars>>

\* risk_management_worker(), lines 331-347: running_ is true, the breaker is
\* active: emergency_stop() stores risk_breach_ and calls stop()
EmergencyStop ==
    /\ ~terminated
    /\ thread_state["risk"] = "running"
    /\ stop_pc["emergency"] = "idle"
    /\ running_
    /\ circuit_breaker_active_
    /\ risk_breach_' = TRUE
    /\ stop_pc' = [stop_pc EXCEPT !["emergency"] = "check"]
    /\ UNCHANGED <<running, main_pc, thread_state, joinable, stop_join,
                   summaries, summary_early, terminated>>
    /\ UNCHANGED <<running_, tradingVars, riskVars>>

\* stop(), lines 122-124: if (!running_.load()) return
StopCheck(caller) ==
    /\ ~terminated
    /\ stop_pc[caller] = "check"
    /\ stop_pc' = [stop_pc EXCEPT ![caller] =
                      IF running_ THEN "store" ELSE "returned"]
    /\ UNCHANGED <<running, main_pc, thread_state, joinable, stop_join,
                   summaries, summary_early, terminated>>
    /\ UNCHANGED <<riskVars, engineVars>>

\* stop(), lines 129-134: running_.store(false), disconnect the WebSocket
StopStore(caller) ==
    /\ ~terminated
    /\ stop_pc[caller] = "store"
    /\ running_' = FALSE
    /\ stop_pc' = [stop_pc EXCEPT ![caller] = "joinable"]
    /\ stop_join' = [stop_join EXCEPT ![caller] = 1]
    /\ UNCHANGED <<running, main_pc, thread_state, joinable, summaries,
                   summary_early, terminated>>
    /\ UNCHANGED <<risk_breach_, tradingVars, riskVars>>

\* stop_pc and stop_join after the caller is done with the thread it joins
AfterJoin(caller) ==
    IF stop_join[caller] = Len(JoinOrder)
      THEN <<[stop_pc EXCEPT ![caller] = "summary"], stop_join>>
      ELSE <<[stop_pc EXCEPT ![caller] = "joinable"],
             [stop_join EXCEPT ![caller] = @ + 1]>>

\* stop(), lines 137-140: if (thread.joinable())
StopJoinable(caller) ==
    /\ ~terminated
    /\ stop_pc[caller] = "joinable"
    /\ IF joinable[JoinOrder[stop_join[caller]]]
         THEN /\ stop_pc' = [stop_pc EXCEPT ![caller] = "joining"]
              /\ UNCHANGED stop_join
         ELSE /\ stop_pc' = AfterJoin(caller)[1]
              /\ stop_join' = AfterJoin(caller)[2]
    /\ UNCHANGED <<running, main_pc, thread_state, joinable, summaries,
                   summary_early, terminated>>
    /\ UNCHANGED <<riskVars, engineVars>>

\* stop(), lines 137-140: thread.join().  A thread that joins itself gets
\* std::system_error (resource_deadlock_would_occur), which nothing on a
\* worker thread catches: std::terminate().  Otherwise join() blocks until
\* the thread's function has returned.  A join() of a thread that another
\* caller has joined meanwhile races on the std::thread object: it returns or
\* it throws, and the exception ends in std::terminate() as well (main()'s
\* handler unwinds into the destruction of joinable threads).
StopJoin(caller, throws) ==
    /\ ~terminated
    /\ stop_pc[caller] = "joining"
    /\ LET w == JoinOrder[stop_join[caller]]
       IN IF ThreadOf(caller) = w
            THEN /\ terminated' = TRUE
                 /\ UNCHANGED <<joinable, stop_pc, stop_join>>
            ELSE /\ thread_state[w] = "exited"
                 /\ IF joinable[w]
                      THEN /\ joinable' = [joinable EXCEPT ![w] = FALSE]
                           /\ stop_pc' = AfterJoin(caller)[1]
                           /\ stop_join' = AfterJoin(caller)[2]
                           /\ UNCHANGED terminated
                      ELSE IF throws
                             THEN /\ terminated' = TRUE
                                  /\ UNCHANGED <<joinable, stop_pc, stop_join>>
                             ELSE /\ stop_pc' = AfterJoin(caller)[1]
                                  /\ stop_join' = AfterJoin(caller)[2]
                                  /\ UNCHANGED <<joinable, terminated>>
    /\ UNCHANGED <<running, main_pc, thread_state, summaries, summary_early>>
    /\ UNCHANGED <<riskVars, engineVars>>

\* stop(), lines 143-148: generate_session_summary(), then return
StopSummary(caller) ==
    /\ ~terminated
    /\ stop_pc[caller] = "summary"
    /\ summaries' = summaries + 1
    /\ summary_early' = (summary_early
                           \/ \E w \in Workers : thread_state[w] # "exited")
    /\ stop_pc' = [stop_pc EXCEPT ![caller] = "returned"]
    /\ UNCHANGED <<running, main_pc, thread_state, joinable, stop_join,
                   terminated>>
    /\ UNCHANGED <<riskVars, engineVars>>

\* a worker's while (running_.load()) loop ends and its function returns; the
\* risk worker also leaves by the break after emergency_stop() returned
WorkerExit(w) ==
    /\ ~terminated
    /\ thread_state[w] = "running"
    /\ IF w = "risk"
         THEN \/ stop_pc["emergency"] = "returned"
              \/ stop_pc["emergency"] = "idle" /\ ~running_
         ELSE ~running_
    /\ thread_state' = [thread_state EXCEPT ![w] = "exited"]
    /\ UNCHANGED <<running, main_pc, joinable, stop_pc, stop_join, summaries,
                   summary_early, terminated>>
    /\ UNCHANGED <<riskVars, engineVars>>

(***************************************************************************)
(* Part 5: OrderBook (src/order_book.cpp) and the market data path of the  *)
(* engine (market_data_worker, order_engine_worker).  The loops over the   *)
(* entries of a message take one entry per step.                           *)
(***************************************************************************)

\* price levels and quantities a feed message can carry
BookPrices == 1..3
BookQuantities == {-1, 0, 1}
BookSides == {"bid", "offer"}

\* number of entries in the "updates" array of one message
MaxUpdates == 2

\* cleanupLevels(): MAX_LEVELS, scaled down
MAX_LEVELS == 2

\* capacity of market_data_queue_ (LockFreeQueue<HFTMarketData, 1024>): Size - 1
\* elements, scaled down
MarketQueueCapacity == 2

\* the entries of an "updates" array
LevelUpdates ==
    [side : BookSides, price_level : BookPrices, new_quantity : BookQuantities]

\* the entries of the feed the market data worker is followed on
FeedUpdates == {update \in LevelUpdates : update.new_quantity >= 0}

\* inputs of updateBids()/updateAsks(): [price, quantity] levels
DepthLevels == [price : 0..3, quantity : BookQuantities]

\* std::map::erase(price)
Erase(book, price) == [p \in DOMAIN book \ {price} |-> book[p]]

\* book[price] = quantity
Store(book, price, quantity) ==
    [p \in DOMAIN book \cup {price} |-> IF p = price THEN quantity ELSE book[p]]

EmptyBook == [p \in {} |-> 0]

\* what follows a malformed entry in its message: nothing, or a next entry
UnreadEntries == {<<>>} \cup {<<update>> : update \in LevelUpdates}

\* no message was cut short
NothingUnread == [type |-> "none", entries |-> <<>>]

\* updateFromWebSocket(), snapshot branch, lines 36-42: a level with
\* quantity > 0 is stored
SnapshotLevel(book, update, side) ==
    IF update.new_quantity > 0 /\ update.side = side
      THEN Store(book, update.price_level, update.new_quantity)
      ELSE book

\* the test that makes an incremental update remove the level
IsRemovalMutant(quantity) == FALSE
IsRemoval(quantity) == quantity = 0

\* updateFromWebSocket(), update branch, lines 55-67: quantity 0 erases the
\* level, any other quantity is stored
UpdateLevel(book, update, side) ==
    IF update.side # side THEN book
    ELSE IF IsRemoval(update.new_quantity)
      THEN Erase(book, update.price_level)
      ELSE Store(book, update.price_level, update.new_quantity)

\* bool parseDepthLevel(level, price, quantity)
parseDepthLevel(level) == ~(level.price <= 0 \/ level.quantity < 0)

\* updateBids()/updateAsks(), lines 93-102: one level
DepthLevel(book, level) ==
    IF ~parseDepthLevel(level) THEN book
    ELSE IF level.quantity = 0
      THEN Erase(book, level.price)
      ELSE Store(book, level.price, level.quantity)

\* the n greatest / least prices of a set
RECURSIVE Greatest(_, _)
Greatest(prices, n) ==
    IF n = 0 \/ prices = {} THEN {}
    ELSE LET top == CHOOSE p \in prices : \A q \in prices : q <= p
         IN {top} \cup Greatest(prices \ {top}, n - 1)
RECURSIVE Least(_, _)
Least(prices, n) ==
    IF n = 0 \/ prices = {} THEN {}
    ELSE LET low == CHOOSE p \in prices : \A q \in prices : p <= q
         IN {low} \cup Least(prices \ {low}, n - 1)

\* cleanupLevels(): each side keeps its best MAX_LEVELS levels
cleanupBids(book) == [p \in Greatest(DOMAIN book, MAX_LEVELS) |-> book[p]]
cleanupAsks(book) == [p \in Least(DOMAIN book, MAX_LEVELS) |-> book[p]]

\* getBestBidPrice(), getBestAskPrice(): 0.0 for an empty side
getBestBidPrice ==
    IF DOMAIN bids_ = {} THEN 0
    ELSE CHOOSE p \in DOMAIN bids_ : \A q \in DOMAIN bids_ : q <= p
getBestAskPrice ==
    IF DOMAIN asks_ = {} THEN 0
    ELSE CHOOSE p \in DOMAIN asks_ : \A q \in DOMAIN asks_ : p <= q

\* bool OrderBook::updateFromWebSocket(depth_data), lines 9-28: the mutex is
\* taken; a message for another product or of an unknown type returns false;
\* a snapshot clears both sides
BeginWebSocket(type, product_id) ==
    /\ book_op = "none"
    /\ IF product_id # EngineSymbol \/ type \notin {"snapshot", "update"}
         THEN UNCHANGED bookVars
         ELSE /\ book_op' = type
              /\ book_count' = 0
              /\ IF type = "snapshot"
                   THEN bids_' = EmptyBook /\ asks_' = EmptyBook
                   ELSE UNCHANGED <<bids_, asks_>>
              /\ book_unread' = NothingUnread
              /\ UNCHANGED book_last

\* updateFromWebSocket(), lines 30-69: one entry of "updates"
WebSocketUpdate(update) ==
    /\ book_op \in {"snapshot", "update"}
    /\ book_count < MaxUpdates
    /\ book_count' = book_count + 1
    /\ book_last' = [side |-> update.side, price |-> update.price_level,
                     quantity |-> update.new_quantity,
                     present |-> update.price_level \in
                        DOMAIN (IF update.side = "bid" THEN bids_ ELSE asks_)]
    /\ IF book_op = "snapshot"
         THEN /\ bids_' = SnapshotLevel(bids_, update, "bid")
              /\ asks_' = SnapshotLevel(asks_, update, "offer")
         ELSE /\ bids_' = UpdateLevel(bids_, update, "bid")
              /\ asks_' = UpdateLevel(asks_, update, "offer")
    /\ UNCHANGED <<book_op, book_unread>>

\* updateFromWebSocket(), lines 33-34 and 83-86: std::stod throws on a
\* malformed price_level or new_quantity; the handler around the whole
\* function catches it and returns false, and the entry after the malformed
\* one (rest) is never read
WebSocketThrow(rest) ==
    /\ book_op \in {"snapshot", "update"}
    /\ book_count < MaxUpdates
    /\ Len(rest) <= MaxUpdates - book_count - 1
    /\ book_op' = "none"
    /\ book_count' = 0
    /\ book_unread' = [type |-> book_op, entries |-> rest]
    /\ UNCHANGED <<bids_, asks_, book_last>>

\* updateFromWebSocket(), lines 76-80: return true, the mutex is released
EndWebSocket ==
    /\ book_op \in {"snapshot", "update"}
    /\ book_op' = "none"
    /\ book_count' = 0
    /\ UNCHANGED <<bids_, asks_, book_last, book_unread>>

\* bool OrderBook::updateBids(bids) / updateAsks(asks) is entered
BeginLevels(op) ==
    /\ book_op = "none"
    /\ book_op' = op
    /\ book_count' = 0
    /\ book_unread' = NothingUnread
    /\ UNCHANGED <<bids_, asks_, book_last>>

\* updateBids() / updateAsks(), lines 92-103: one level
LevelUpdate(level) ==
    /\ book_op \in {"updateBids", "updateAsks"}
    /\ book_count < MaxUpdates
    /\ book_count' = book_count + 1
    /\ book_last' = [side |-> IF book_op = "updateBids" THEN "bid" ELSE "offer",
                     price |-> level.price, quantity |-> level.quantity,
                     present |-> level.price \in
                        DOMAIN (IF book_op = "updateBids" THEN bids_ ELSE asks_)]
    /\ IF book_op = "updateBids"
         THEN bids_' = DepthLevel(bids_, level) /\ UNCHANGED asks_
         ELSE asks_' = DepthLevel(asks_, level) /\ UNCHANGED bids_
    /\ UNCHANGED <<book_op, book_unread>>

\* updateBids() / updateAsks(), lines 94 and 307-320: std::stod throws inside
\* parseDepthLevel, which catches and returns false; the level is skipped and
\* the loop goes on
LevelMalformed ==
    /\ book_op \in {"updateBids", "updateAsks"}
    /\ book_count < MaxUpdates
    /\ book_count' = book_count + 1
    /\ UNCHANGED <<bids_, asks_, book_op, book_last, book_unread>>

\* updateBids() / updateAsks(), lines 105-108: cleanupLevels(), return true
EndLevels ==
    /\ book_op \in {"updateBids", "updateAsks"}
    /\ bids_' = cleanupBids(bids_)
    /\ asks_' = cleanupAsks(asks_)
    /\ book_op' = "none"
    /\ book_count' = 0
    /\ UNCHANGED <<book_last, book_unread>>

\* void OrderBook::reset()
reset ==
    /\ book_op = "none"
    /\ bids_' = EmptyBook
    /\ asks_' = EmptyBook
    /\ book_unread' = NothingUnread
    /\ UNCHANGED <<book_op, book_count, book_last>>

\* market_data_worker() callback, lines 184-200, one entry of "updates": a bid
\* with quantity > 0 replaces best_bid if it is higher (or best_bid is 0), an
\* offer replaces best_ask if it is lower (or best_ask is 0)
CallbackBest(update, best_bid, best_ask) ==
    LET price == update.price_level
        qty == update.new_quantity
    IN IF update.side = "bid"
         THEN IF qty > 0 /\ (best_bid = 0 \/ price > best_bid)
                THEN <<price, best_ask>>
                ELSE <<best_bid, best_ask>>
         ELSE IF qty > 0 /\ (best_ask = 0 \/ price < best_ask)
                THEN <<best_bid, price>>
                ELSE <<best_bid, best_ask>>

\* market_data_worker() callback, line 203: only valid prices are published
PublishValidMutant(best_bid, best_ask) == best_bid > 0 /\ best_ask > 0
PublishValid(best_bid, best_ask) ==
    best_bid > 0 /\ best_ask > 0 /\ best_bid < best_ask

\* the state before any market data: nothing published, empty book
InitMarket ==
    /\ bids_ = EmptyBook
    /\ asks_ = EmptyBook
    /\ book_op = "none"
    /\ book_count = 0
    /\ book_last = [side |-> "none", price |-> 0, quantity |-> 0,
                    present |-> FALSE]
    /\ book_unread = NothingUnread
    /\ current_bid_ = 0
    /\ current_ask_ = 0
    /\ market_data_queue_ = <<>>
    /\ md_pc = "idle"
    /\ md_best = <<0, 0>>
    /\ md_count = 0
    /\ md_data = [bid_price |-> 0, ask_price |-> 0]
    /\ tq_bid = 0
    /\ signal_input = [source |-> "none", bid_price |-> 0, ask_price |-> 0]

\* market_data_worker() callback, lines 163-181: an event of type snapshot or
\* update for ETH-USD; best_bid and best_ask start from the published values
CallbackBegin(type, product_id) ==
    /\ md_pc = "idle"
    /\ IF product_id = "ETH-USD" /\ type \in {"snapshot", "update"}
         THEN /\ md_pc' = "updates"
              /\ md_best' = <<current_bid_, current_ask_>>
              /\ md_count' = 0
         ELSE UNCHANGED <<md_pc, md_best, md_count>>
    /\ UNCHANGED <<current_bid_, current_ask_, market_data_queue_, md_data,
                   tq_bid, signal_input>>

\* callback, lines 184-200: one entry of "updates"
CallbackUpdate(update) ==
    /\ md_pc = "updates"
    /\ md_count < MaxUpdates
    /\ md_count' = md_count + 1
    /\ md_best' = CallbackBest(update, md_best[1], md_best[2])
    /\ UNCHANGED <<current_bid_, current_ask_, market_data_queue_, md_pc,
                   md_data, tq_bid, signal_input>>

\* callback, lines 203-229: if the best prices are valid the market_data
\* record is built
CallbackFinish ==
    /\ md_pc = "updates"
    /\ IF PublishValid(md_best[1], md_best[2])
         THEN /\ md_data' = [bid_price |-> md_best[1], ask_price |-> md_best[2]]
              /\ md_pc' = "store_bid"
         ELSE /\ md_pc' = "idle"
              /\ UNCHANGED md_data
    /\ md_count' = 0
    /\ UNCHANGED <<current_bid_, current_ask_, market_data_queue_, md_best,
                   tq_bid, signal_input>>

\* callback, line 232: current_bid_.store(market_data.bid_price)
CallbackStoreBid ==
    /\ md_pc = "store_bid"
    /\ current_bid_' = md_data.bid_price
    /\ md_pc' = "store_ask"
    /\ UNCHANGED <<current_ask_, market_data_queue_, md_best, md_count,
                   md_data, tq_bid, signal_input>>

\* callback, line 233: current_ask_.store(market_data.ask_price)
CallbackStoreAsk ==
    /\ md_pc = "store_ask"
    /\ current_ask_' = md_data.ask_price
    /\ md_pc' = "push"
    /\ UNCHANGED <<current_bid_, market_data_queue_, md_best, md_count,
                   md_data, tq_bid, signal_input>>

\* callback, line 240: market_data_queue_.push(market_data); a full ring
\* refuses the element
CallbackPush ==
    /\ md_pc = "push"
    /\ market_data_queue_' =
          IF Len(market_data_queue_) < MarketQueueCapacity
            THEN Append(market_data_queue_, md_data)
            ELSE market_data_queue_
    /\ md_pc' = "idle"
    /\ UNCHANGED <<current_bid_, current_ask_, md_best, md_count, md_data,
                   tq_bid, signal_input>>

\* the engine variables a new signal leaves alone
signalFrame == <<running_, risk_breach_, current_position_, orders_filled,
                 inbound_order_queue_, om_current_position_,
                 previous_position_, avg_buy_price_, cumulative_pnl_, r_pc,
                 r_current_pnl, r_can_buy, last_pnl, lastSend, sessionVars,
                 orderVars>>

\* order_engine_worker(), lines 276-292: a snapshot is popped off the ring,
\* generate_signal(market_data), place_order_ladder(signal)
TraderPop ==
    /\ t_pc = "loop"
    /\ running_
    /\ ladders < MaxLadders
    /\ market_data_queue_ # <<>>
    /\ LET market_data == Head(market_data_queue_)
       IN /\ market_data_queue_' = Tail(market_data_queue_)
          /\ t_signal' = generate_signal(<<market_data.bid_price,
                                           market_data.ask_price>>)
          /\ signal_input' = [source |-> "ring",
                              bid_price |-> market_data.bid_price,
                              ask_price |-> market_data.ask_price]
    /\ t_level' = 0
    /\ ladders' = ladders + 1
    /\ t_pc' = "bid"
    /\ UNCHANGED <<current_bid_, current_ask_, md_pc, md_best, md_count,
                   md_data, tq_bid>>
    /\ UNCHANGED signalFrame

\* order_engine_worker(), line 298: the order timer is due,
\* current_bid_.load() > 0
TimedCheckBid ==
    /\ t_pc = "loop"
    /\ running_
    /\ ladders < MaxLadders
    /\ t_pc' = IF current_bid_ > 0 THEN "timed_check_ask" ELSE "responses"
    /\ UNCHANGED <<t_signal, t_level, ladders, marketVars>>
    /\ UNCHANGED signalFrame

\* order_engine_worker(), line 298: current_ask_.load() > 0
TimedCheckAsk ==
    /\ t_pc = "timed_check_ask"
    /\ t_pc' = IF current_ask_ > 0 THEN "timed_load_bid" ELSE "responses"
    /\ UNCHANGED <<t_signal, t_level, ladders, marketVars>>
    /\ UNCHANGED signalFrame

\* order_engine_worker(), line 301: bid_price = current_bid_.load()
TimedLoadBid ==
    /\ t_pc = "timed_load_bid"
    /\ tq_bid' = current_bid_
    /\ t_pc' = "timed_load_ask"
    /\ UNCHANGED <<t_signal, t_level, ladders, current_bid_, current_ask_,
                   market_data_queue_, md_pc, md_best, md_count, md_data,
                   signal_input>>
    /\ UNCHANGED signalFrame

\* order_engine_worker(), lines 302-308: ask_price = current_ask_.load(),
\* generate_signal(current_market), place_order_ladder(signal)
TimedLoadAsk ==
    /\ t_pc = "timed_load_ask"
    /\ t_signal' = generate_signal(<<tq_bid, current_ask_>>)
    /\ signal_input' = [source |-> "timer", bid_price |-> tq_bid,
                        ask_price |-> current_ask_]
    /\ t_level' = 0
    /\ ladders' = ladders + 1
    /\ t_pc' = "bid"
    /\ UNCHANGED <<current_bid_, current_ask_, market_data_queue_, md_pc,
                   md_best, md_count, md_data, tq_bid>>
    /\ UNCHANGED signalFrame

(***************************************************************************)
(* Part 6: the readers of the OrderBook (src/order_book.cpp)               *)
(***************************************************************************)

\* getSnapshot(), lines 160 and 167: the number of levels per side a snapshot
\* carries, scaled down
SnapshotDepth == 1

\* getSnapshot(), lines 135-175: the OrderBookSnapshot of a book
SnapshotOf(bids, asks) ==
    [best_bid_price |-> IF DOMAIN bids = {} THEN 0
                        ELSE CHOOSE p \in DOMAIN bids : \A q \in DOMAIN bids : q <= p,
     best_ask_price |-> IF DOMAIN asks = {} THEN 0
                        ELSE CHOOSE p \in DOMAIN asks : \A q \in DOMAIN asks : p <= q,
     bids |-> [p \in Greatest(DOMAIN bids, SnapshotDepth) |-> bids[p]],
     asks |-> [p \in Least(DOMAIN asks, SnapshotDepth) |-> asks[p]],
     is_valid |-> DOMAIN bids # {} /\ DOMAIN asks # {}]

\* std::mutex mutex_ is held by a mutation in progress
MutexHeld == book_op # "none"

InitSnapshot ==
    /\ snap_pc = "idle"
    /\ snapshot = SnapshotOf(EmptyBook, EmptyBook)
    /\ book_before = <<EmptyBook, EmptyBook>>

\* getSnapshot() is called, line 134: the caller asks for mutex_ and blocks
\* if a mutation holds it
SnapshotCall ==
    /\ snap_pc = "idle"
    /\ snap_pc' = IF MutexHeld THEN "blocked" ELSE "lock"
    /\ UNCHANGED <<snapshot, book_before>>

\* getSnapshot(), lines 134-175: mutex_ is acquired, the snapshot is filled
\* from bids_ and asks_ and returned, mutex_ is released
getSnapshot ==
    /\ snap_pc \in {"lock", "blocked"}
    /\ ~MutexHeld
    /\ snapshot' = SnapshotOf(bids_, asks_)
    /\ snap_pc' = "idle"
    /\ UNCHANGED book_before

(***************************************************************************)
(* Part 7: main() of src/main.cpp and the OrderManager it owns             *)
(***************************************************************************)

\* main(), line 73: OrderManager order_manager is constructed
InitLife ==
    /\ bot_pc = "running"
    /\ bot_summaries = 0

\* main(), line 307: order_manager.shutdown(), which calls
\* generateSessionSummary()
BotShutdown ==
    /\ bot_pc = "running"
    /\ bot_pc' = "shutdown"
    /\ bot_summaries' = bot_summaries + 1

\* main() leaves the try block, at its end or by an early return (lines 88,
\* 94) or an exception: ~OrderManager() calls shutdown(), which calls
\* generateSessionSummary()
BotDestroy ==
    /\ bot_pc \in {"running", "shutdown"}
    /\ bot_pc' = "destroyed"
    /\ bot_summaries' = bot_summaries + 1

(***************************************************************************)
(* Part 8: the observers of the RiskManager (src/risk_manager.cpp)         *)
(***************************************************************************)

\* std::chrono::minutes(5)
FiveMinutes == 300 * OneSecond

\* getCurrentRiskStatus(), lines 162-170: the events of the last five minutes
\* with one of the given levels.  Every event was recorded at a time in
\* 0..now and now stays below FiveMinutes, so "event.timestamp >
\* five_minutes_ago" holds for every event of the log.
EventsOfLevel(levels) ==
    {i \in 1..Len(risk_events_) :
        now - FiveMinutes < 0 /\ risk_events_[i].level \in levels}

\* RiskStatus getCurrentRiskStatus() const
getCurrentRiskStatus ==
    IF circuit_breaker_active_ THEN "EMERGENCY"
    ELSE IF Cardinality(EventsOfLevel({"CRITICAL", "EMERGENCY"})) > 0
      THEN "CRITICAL"
    ELSE IF Cardinality(EventsOfLevel({"WARNING"})) > 3 THEN "WARNING"
    ELSE "NORMAL"

(***************************************************************************)
(* Part 9: the mutexes of RiskManager, OrderManager and OrderBook          *)
(***************************************************************************)

\* the std::mutex members the calls below take
Mutexes == {"position_mutex_", "financial_mutex_", "operational_mutex_",
            "events_mutex_", "pnl_mutex_", "orders_mutex_", "mutex_"}

\* the threads of the program that call into the three components
LockThreads == {"trading", "main"}

\* std::lock_guard<std::mutex> lock(m): construction and destruction
Lock(mutex) == [op |-> "lock", mutex |-> mutex]
Unlock(mutex) == [op |-> "unlock", mutex |-> mutex]

\* void RiskManager::recordRiskEvent(...)
recordRiskEventSteps == <<Lock("events_mutex_"), Unlock("events_mutex_")>>

\* void RiskManager::updatePnL(double): a breached limit records an event and
\* triggers the circuit breaker, which records another; a warning records one
updatePnLSteps(breached, warning) ==
    <<Lock("financial_mutex_")>>
    \o (IF breached THEN recordRiskEventSteps \o recordRiskEventSteps ELSE <<>>)
    \o (IF warning THEN recordRiskEventSteps ELSE <<>>)
    \o <<Unlock("financial_mutex_")>>

\* void OrderManager::updatePositionAndPnL(const Order&): updatePnL is called
\* under pnl_mutex_ when the trade realized a profit or a loss
updatePositionAndPnLSteps(realized, breached, warning) ==
    <<Lock("pnl_mutex_")>>
    \o (IF realized THEN updatePnLSteps(breached, warning) ELSE <<>>)
    \o <<Unlock("pnl_mutex_")>>

\* void RiskManager::updatePosition(...): positions_[symbol] += ..., then the
\* utilization warning, all under position_mutex_
updatePositionSteps(warning) ==
    <<Lock("position_mutex_"), [op |-> "store", mutex |-> "position_mutex_"]>>
    \o (IF warning THEN recordRiskEventSteps ELSE <<>>)
    \o <<Unlock("position_mutex_")>>

\* PositionRisk RiskManager::getPositionRisk(symbol) const
getPositionRiskSteps == <<Lock("position_mutex_"), Unlock("position_mutex_")>>

\* void RiskManager::generateRiskReport(filename) const: getCurrentRiskStatus
\* (events_mutex_ unless the breaker is active), getFinancialRisk, the loop
\* over positions_ under position_mutex_, getOperationalRisk,
\* getRecentRiskEvents
generateRiskReportSteps(breaker) ==
    (IF breaker THEN <<>> ELSE recordRiskEventSteps)
    \o <<Lock("financial_mutex_"), Unlock("financial_mutex_")>>
    \o <<Lock("position_mutex_"), [op |-> "loop", mutex |-> "position_mutex_"],
         Unlock("position_mutex_")>>
    \o <<Lock("operational_mutex_"), Unlock("operational_mutex_")>>
    \o <<Lock("events_mutex_"), Unlock("events_mutex_")>>

\* bool RiskManager::canPlaceOrder(...) past the breaker test: the three
\* limit checks one after the other, each under its own mutex, and the event
\* of a position or rate rejection
canPlaceOrderSteps(rejection) ==
    <<Lock("position_mutex_"), Unlock("position_mutex_")>>
    \o (IF rejection = "position" THEN recordRiskEventSteps
        ELSE <<Lock("financial_mutex_"), Unlock("financial_mutex_")>>
             \o (IF rejection = "financial" THEN <<>>
                 ELSE <<Lock("operational_mutex_"), Unlock("operational_mutex_")>>
                      \o (IF rejection = "rate" THEN recordRiskEventSteps
                          ELSE <<>>)))

\* void OrderManager::trackOrder(const Order&)
trackOrderSteps == <<Lock("orders_mutex_"), Unlock("orders_mutex_")>>

\* OrderBookSnapshot OrderBook::getSnapshot() const
getSnapshotSteps == <<Lock("mutex_"), Unlock("mutex_")>>

\* the calls a thread may make
LockCalls ==
    {updatePositionAndPnLSteps(realized, breached, warning) :
        realized \in BOOLEAN, breached \in BOOLEAN, warning \in BOOLEAN}
    \cup {updatePositionSteps(warning) : warning \in BOOLEAN}
    \cup {generateRiskReportSteps(breaker) : breaker \in BOOLEAN}
    \cup {canPlaceOrderSteps(rejection) :
            rejection \in {"none", "position", "financial", "rate"}}
    \cup {trackOrderSteps, getSnapshotSteps}

\* no thread is in a call and no symbol has a position yet
InitLocks ==
    /\ mutex_owner = [mutex \in Mutexes |-> "none"]
    /\ lock_steps = [thread \in LockThreads |-> <<>>]
    /\ lock_state = [thread \in LockThreads |-> "running"]
    /\ position_keys = {}

\* the next step of a thread that is in a call
NextStep(thread) == Head(lock_steps[thread])

\* a thread is at a step of the given kind
AtStep(thread, op) ==
    /\ lock_state[thread] = "running"
    /\ lock_steps[thread] # <<>>
    /\ NextStep(thread).op = op

\* a thread that is in no call begins one
LockCall(thread, steps) ==
    /\ lock_state[thread] = "running"
    /\ lock_steps[thread] = <<>>
    /\ lock_steps' = [lock_steps EXCEPT ![thread] = steps]
    /\ UNCHANGED <<mutex_owner, lock_state, position_keys>>

\* a std::mutex::lock() call returns: no thread holds the mutex
MutexFreeMutant(mutex) == TRUE
MutexFree(mutex) == mutex_owner[mutex] = "none"

\* std::mutex::lock() on a mutex no thread holds
Acquire(thread) ==
    /\ AtStep(thread, "lock")
    /\ MutexFree(NextStep(thread).mutex)
    /\ mutex_owner' = [mutex_owner EXCEPT ![NextStep(thread).mutex] = thread]
    /\ lock_steps' = [lock_steps EXCEPT ![thread] = Tail(@)]
    /\ UNCHANGED <<lock_state, position_keys>>

\* std::mutex::lock() on a mutex the calling thread holds: the behaviour is
\* undefined; the thread waits for itself for ever
Relock(thread) ==
    /\ AtStep(thread, "lock")
    /\ mutex_owner[NextStep(thread).mutex] = thread
    /\ lock_state' = [lock_state EXCEPT ![thread] = "deadlocked"]
    /\ UNCHANGED <<mutex_owner, lock_steps, position_keys>>

\* the same, where lock() reports resource_deadlock_would_occur: the
\* std::system_error leaves the call and the lock_guards release on the way
RelockThrows(thread) ==
    /\ AtStep(thread, "lock")
    /\ mutex_owner[NextStep(thread).mutex] = thread
    /\ lock_state' = [lock_state EXCEPT ![thread] = "failed"]
    /\ lock_steps' = [lock_steps EXCEPT ![thread] = <<>>]
    /\ mutex_owner' = [mutex \in Mutexes |->
                         IF mutex_owner[mutex] = thread THEN "none"
                         ELSE mutex_owner[mutex]]
    /\ UNCHANGED position_keys

\* ~lock_guard(): std::mutex::unlock()
Release(thread) ==
    /\ AtStep(thread, "unlock")
    /\ mutex_owner' = [mutex_owner EXCEPT ![NextStep(thread).mutex] = "none"]
    /\ lock_steps' = [lock_steps EXCEPT ![thread] = Tail(@)]
    /\ UNCHANGED <<lock_state, position_keys>>

\* updatePosition, line 94: positions_[symbol] += position_change
StorePosition(thread) ==
    /\ AtStep(thread, "store")
    /\ position_keys' = position_keys \cup {EngineSymbol}
    /\ lock_steps' = [lock_steps EXCEPT ![thread] = Tail(@)]
    /\ UNCHANGED <<mutex_owner, lock_state>>

\* generateRiskReport, lines 376-383: one getPositionRisk(symbol) per entry
\* of positions_
ReportLoop(thread) ==
    /\ AtStep(thread, "loop")
    /\ lock_steps' = [lock_steps EXCEPT ![thread] =
                        (IF position_keys = {} THEN <<>>
                         ELSE getPositionRiskSteps) \o Tail(@)]
    /\ UNCHANGED <<mutex_owner, lock_state, position_keys>>

(***************************************************************************)
(* Part 10: RiskManager::canPlaceOrder next to RiskManager::updatePosition *)
(* on other threads (src/risk_manager.cpp)                                 *)
(***************************************************************************)

\* the threads that report fills through updatePosition
UpdateThreads == {"callback", "main"}

\* the symbol of the orders and fills
GateSymbol == "ETHUSDT"

\* the updatePosition calls that have stored into positions_
Stored == {i \in 1..Len(mutations) : mutations[i].state # "called"}

\* the updatePosition calls that have returned
Completed == {i \in 1..Len(mutations) : mutations[i].state = "completed"}

\* the net of the position changes of a set of updatePosition calls
RECURSIVE SumChanges(_)
SumChanges(ids) ==
    IF ids = {} THEN 0
    ELSE LET i == CHOOSE x \in ids : TRUE
         IN mutations[i].change + SumChanges(ids \ {i})

NoGate == [pc |-> "idle", side |-> "BUY", quantity |-> 0, checked |-> FALSE,
           passed |-> FALSE, allowed |-> FALSE, position |-> 0,
           began |-> {}, seen |-> {}]

NoUpdate == [pc |-> "idle", id |-> 0, loaded |-> 0]

InitGate ==
    /\ gate = NoGate
    /\ upd = [thread \in UpdateThreads |-> NoUpdate]
    /\ mutations = <<>>

\* canPlaceOrder, lines 54-62: the call begins and tests the circuit breaker
GateCall(side, quantity) ==
    /\ gate.pc \in {"idle", "returned"}
    /\ gate' = [NoGate EXCEPT
                  !.pc = IF circuit_breaker_active_ THEN "returned" ELSE "lock",
                  !.side = side, !.quantity = quantity, !.began = Completed]
    /\ UNCHANGED <<upd, mutations, mutex_owner, positions_, risk_events_>>

\* checkPositionLimits, line 500: lock_guard on position_mutex_
GateLock ==
    /\ gate.pc = "lock"
    /\ MutexFree("position_mutex_")
    /\ mutex_owner' = [mutex_owner EXCEPT !["position_mutex_"] = "gate"]
    /\ gate' = [gate EXCEPT !.pc = "check"]
    /\ UNCHANGED <<upd, mutations, positions_, risk_events_>>

\* checkPositionLimits, lines 502-517: the position is read and compared, and
\* the lock_guard releases on return
GateCheck ==
    /\ gate.pc = "check"
    /\ gate' = [gate EXCEPT
                  !.pc = "rest", !.checked = TRUE,
                  !.position = PositionOf(GateSymbol),
                  !.passed = checkPositionLimits(GateSymbol, gate.side,
                                                 gate.quantity),
                  !.seen = Stored]
    /\ mutex_owner' = [mutex_owner EXCEPT !["position_mutex_"] =
                         IF @ = "gate" THEN "none" ELSE @]
    /\ UNCHANGED <<upd, mutations, positions_, risk_events_>>

\* canPlaceOrder, lines 65-87: what follows the position check
GateRest ==
    LET events ==
            IF ~gate.passed
              THEN <<RiskEvent("POSITION_LIMIT_EXCEEDED", "CRITICAL")>>
            ELSE IF checkFinancialLimits
                    /\ ~checkOperationalLimits(recent_orders_, now)
              THEN <<RiskEvent("ORDER_RATE_LIMIT_EXCEEDED", "WARNING")>>
            ELSE <<>>
    IN /\ gate.pc = "rest"
       /\ gate' = [gate EXCEPT
                     !.pc = "returned",
                     !.allowed = /\ gate.passed
                                 /\ checkFinancialLimits
                                 /\ checkOperationalLimits(recent_orders_, now)]
       /\ risk_events_' = recordRiskEvents(risk_events_, events)
       /\ UNCHANGED <<upd, mutations, mutex_owner, positions_>>

\* updatePosition is called
UpdateCall(thread, side, quantity) ==
    /\ upd[thread].pc = "idle"
    /\ Len(mutations) < MaxMutations
    /\ mutations' = Append(mutations,
                           [change |-> SignedQuantity(side, quantity),
                            state |-> "called"])
    /\ upd' = [upd EXCEPT ![thread] =
                  [pc |-> "lock", id |-> Len(mutations) + 1, loaded |-> 0]]
    /\ UNCHANGED <<gate, mutex_owner, positions_, risk_events_>>

\* updatePosition, line 91: lock_guard on position_mutex_
UpdateLock(thread) ==
    /\ upd[thread].pc = "lock"
    /\ MutexFree("position_mutex_")
    /\ mutex_owner' = [mutex_owner EXCEPT !["position_mutex_"] = thread]
    /\ upd' = [upd EXCEPT ![thread].pc = "load"]
    /\ UNCHANGED <<gate, mutations, positions_, risk_events_>>

\* updatePosition, line 94: positions_[symbol] += position_change reads ...
UpdateLoad(thread) ==
    /\ upd[thread].pc = "load"
    /\ upd' = [upd EXCEPT ![thread].pc = "store",
                          ![thread].loaded = PositionOf(GateSymbol)]
    /\ UNCHANGED <<gate, mutations, mutex_owner, positions_, risk_events_>>

\* ... and writes
UpdateStore(thread) ==
    /\ upd[thread].pc = "store"
    /\ positions_' =
          (GateSymbol :> upd[thread].loaded + mutations[upd[thread].id].change)
          @@ positions_
    /\ mutations' = [mutations EXCEPT ![upd[thread].id].state = "stored"]
    /\ upd' = [upd EXCEPT ![thread].pc = "warn"]
    /\ UNCHANGED <<gate, mutex_owner, risk_events_>>

\* updatePosition, lines 96-110: the utilization warning, and the lock_guard
\* releases on return
UpdateReturn(thread) ==
    LET warn == /\ GateSymbol \in DOMAIN position_limits_
                /\ 5 * Abs(PositionOf(GateSymbol))
                       > 4 * position_limits_[GateSymbol]
        events == IF warn THEN <<RiskEvent("POSITION_WARNING", "WARNING")>>
                  ELSE <<>>
    IN /\ upd[thread].pc = "warn"
       /\ risk_events_' = recordRiskEvents(risk_events_, events)
       /\ mutex_owner' = [mutex_owner EXCEPT !["position_mutex_"] =
                            IF @ = thread THEN "none" ELSE @]
       /\ mutations' = [mutations EXCEPT ![upd[thread].id].state = "completed"]
       /\ upd' = [upd EXCEPT ![thread] = NoUpdate]
       /\ UNCHANGED <<gate, positions_>>

(***************************************************************************)
(* Part 11: the prices and quantities of HFTEngine::generate_signal and    *)
(* HFTEngine::place_order_ladder (src/hft_engine.cpp).  Prices are in      *)
(* units of 0.00025, positions in units of 0.005, quantities in units of   *)
(* order_size_ / 10000.                                                    *)
(***************************************************************************)

\* double tick_size = 0.01
TickSize == 40
\* order_size_, in quantity units
OrderSize == 10000
\* double max_neutral_pos = 0.01
MaxNeutralPos == 2

\* tick_size * 0.25
SpreadOffset == TickSize \div 4
\* tick_size * 0.5
MinSpread == TickSize \div 2

\* the bid and ask prices of the market data quoted on; even, so that their
\* mid is a price
QuotePrices == {1000, 1002, 1010, 1040, 1100}
\* the inventories quoted on
QuotePositions == -5..5

\* signal.bid_price = market_data.bid_price - spread_offset
QuoteBidPrice(bid_price) == bid_price - SpreadOffset

\* too short: signal.bid_price = market_data.bid_price - (tick_size * 1.5)
SkewedBidPriceMutant(bid_price) == bid_price + (3 * TickSize) \div 2
SkewedBidPrice(bid_price) == bid_price - (3 * TickSize) \div 2

\* too long: signal.ask_price = market_data.ask_price + (tick_size * 1.5)
SkewedAskPrice(ask_price) == ask_price + (3 * TickSize) \div 2

\* signal.ask_price = market_data.ask_price + spread_offset
QuoteAskPriceMutant(ask_price) == ask_price + SpreadOffset + Len(quote_orders)
QuoteAskPrice(ask_price) == ask_price + SpreadOffset

\* the inventory of "std::abs(current_pos) / 0.02", in position units
PenaltyInventory == 4

\* std::min(0.8, std::abs(current_pos) / 0.02), in percent
InventoryPenalty(current_pos) ==
    IF (100 * Abs(current_pos)) \div PenaltyInventory < 80
      THEN (100 * Abs(current_pos)) \div PenaltyInventory
      ELSE 80

\* quantity *= (1.0 - inventory_penalty) when the penalty exceeds 0.2
Penalized(quantity, current_pos) ==
    IF InventoryPenalty(current_pos) > 20
      THEN (quantity * (100 - InventoryPenalty(current_pos))) \div 100
      ELSE quantity

\* HFTSignal generate_signal(market_data), lines 461-503: the prices and the
\* quantities of the signal
SignalOf(bid_price, ask_price, current_pos) ==
    LET narrow == (QuoteAskPrice(ask_price) - QuoteBidPrice(bid_price))
                      < MinSpread
        mid == (bid_price + ask_price) \div 2
        bid == IF narrow THEN mid - (MinSpread \div 2)
               ELSE QuoteBidPrice(bid_price)
        ask == IF narrow THEN mid + (MinSpread \div 2)
               ELSE QuoteAskPrice(ask_price)
        long == current_pos > MaxNeutralPos
        short == current_pos < -MaxNeutralPos
    IN [place_bid |-> TRUE, place_ask |-> TRUE, num_levels |-> NumLevels,
        bid_price |-> IF short THEN SkewedBidPrice(bid_price) ELSE bid,
        ask_price |-> IF long THEN SkewedAskPrice(ask_price) ELSE ask,
        bid_quantity |->
            Penalized(IF long THEN OrderSize \div 2
                      ELSE IF short THEN (3 * OrderSize) \div 2
                      ELSE OrderSize, current_pos),
        ask_quantity |->
            Penalized(IF long THEN (3 * OrderSize) \div 2
                      ELSE IF short THEN OrderSize \div 2
                      ELSE OrderSize, current_pos)]

\* place_order_ladder, lines 517-551: the bid order and the ask order of one
\* level
LadderOrders(signal, level) ==
    (IF signal.place_bid
       THEN <<[side |-> "B", priority |-> level,
               price |-> signal.bid_price - (level * TickSize) \div 10,
               quantity |-> (signal.bid_quantity * (10 - level)) \div 10]>>
       ELSE <<>>)
    \o (IF signal.place_ask
          THEN <<[side |-> "S", priority |-> level,
                  price |-> signal.ask_price + (level * TickSize) \div 10,
                  quantity |-> (signal.ask_quantity * (10 - level)) \div 10]>>
          ELSE <<>>)

\* place_order_ladder: the orders of the levels level..num_levels-1
RECURSIVE LadderFrom(_, _)
LadderFrom(signal, level) ==
    IF level >= signal.num_levels THEN <<>>
    ELSE LadderOrders(signal, level) \o LadderFrom(signal, level + 1)

NoQuote == [bid_price |-> 0, ask_price |-> 0, current_pos |-> 0]

InitPassive ==
    /\ quote_input = NoQuote
    /\ quote_signal = NoSignal
    /\ quote_orders = <<>>
    /\ quote_repeat = FALSE

\* generate_signal(market_data) with current_position_ = current_pos
QuoteSignal(bid_price, ask_price, current_pos) ==
    /\ quote_input' = [bid_price |-> bid_price, ask_price |-> ask_price,
                       current_pos |-> current_pos]
    /\ quote_signal' = SignalOf(bid_price, ask_price, current_pos)
    /\ quote_orders' = <<>>
    /\ quote_repeat' = (quote_signal # NoSignal /\ quote_input' = quote_input)

\* place_order_ladder(signal)
QuoteLadder ==
    /\ quote_signal # NoSignal
    /\ quote_orders = <<>>
    /\ quote_orders' = LadderFrom(quote_signal, 0)
    /\ UNCHANGED <<quote_input, quote_signal, quote_repeat>>

(***************************************************************************)
(* Part 12: HFTEngine::update_latency_metrics (src/hft_engine.cpp)          *)
(***************************************************************************)

\* UINT64_MAX
UInt64Max == UInt64Values - 1

\* the latency samples: every uint64_t
LatencySamples == 0..UInt64Max

\* (current_avg + latency_ns) / 2 in uint64_t arithmetic
NewAverage(current_avg, latency_ns) ==
    ((current_avg + latency_ns) % UInt64Values) \div 2

\* the least and the greatest element of a non-empty sequence of samples
LeastSample(samples) ==
    CHOOSE x \in {samples[i] : i \in 1..Len(samples)} :
        \A i \in 1..Len(samples) : x <= samples[i]
GreatestSample(samples) ==
    CHOOSE x \in {samples[i] : i \in 1..Len(samples)} :
        \A i \in 1..Len(samples) : x >= samples[i]

\* HFTMetrics: avg 0, min UINT64_MAX, max 0
InitLatency ==
    /\ avg_order_latency_ns = 0
    /\ min_order_latency_ns = UInt64Max
    /\ max_order_latency_ns = 0
    /\ latency_samples = <<>>
    /\ latency_prev_avg = 0

\* void update_latency_metrics(uint64_t latency_ns), called by the order
\* engine thread alone: the two compare-exchange loops, then the average
update_latency_metrics(latency_ns) ==
    /\ Len(latency_samples) < MaxSamples
    /\ min_order_latency_ns' =
          IF latency_ns < min_order_latency_ns THEN latency_ns
          ELSE min_order_latency_ns
    /\ max_order_latency_ns' =
          IF latency_ns > max_order_latency_ns THEN latency_ns
          ELSE max_order_latency_ns
    /\ avg_order_latency_ns' = NewAverage(avg_order_latency_ns, latency_ns)
    /\ latency_samples' = Append(latency_samples, latency_ns)
    /\ latency_prev_avg' = avg_order_latency_ns

(***************************************************************************)
(* Part 13: HFTEngine::start() (src/hft_engine.cpp) and the connection and *)
(* subscription of its WebSocketClient (src/websocket_client.cpp)          *)
(***************************************************************************)

\* the subscription message of subscribeOrderBook
Subscription == "subscribe level2"

\* a constructed WebSocketClient and no start() call yet
InitConnection ==
    /\ start_pc = "idle"
    /\ start_result = "none"
    /\ connected_ = FALSE
    /\ pending_subscriptions_ = <<>>
    /\ tx_queue_ = <<>>
    /\ message_callback_ = FALSE
    /\ ws_pc = "down"
    /\ sub_pc = "idle"
    /\ rx_handled = 0
    /\ rx_dropped = 0

\* start(), lines 89-94: return if running_, else running_.store(true)
StartCall ==
    /\ start_pc \in {"idle", "returned"}
    /\ IF running_
         THEN /\ start_result' = "already running"
              /\ start_pc' = "returned"
              /\ UNCHANGED running_
         ELSE /\ running_' = TRUE
              /\ start_pc' = "connect"
              /\ UNCHANGED start_result
    /\ UNCHANGED <<connected_, pending_subscriptions_, tx_queue_,
                   message_callback_, ws_pc, sub_pc, rx_handled, rx_dropped,
                   thread_state, joinable>>

\* start(), lines 97-102, and WebSocketClient::connect: false when the URL
\* does not parse; else the transport thread is started and connect returns
\* true after 500 ms, connected or not
StartConnect(url_parses) ==
    /\ start_pc = "connect"
    /\ IF url_parses
         THEN /\ ws_pc' = "connecting"
              /\ start_pc' = "subscribe"
              /\ UNCHANGED start_result
         ELSE /\ start_result' = "connect failed"
              /\ start_pc' = "returned"
              /\ UNCHANGED ws_pc
    /\ UNCHANGED <<running_, connected_, pending_subscriptions_, tx_queue_,
                   message_callback_, sub_pc, rx_handled, rx_dropped,
                   thread_state, joinable>>

\* start(), line 106: subscribeOrderBook is called (credentials are set)
StartSubscribe ==
    /\ start_pc = "subscribe"
    /\ start_pc' = "subscribing"
    /\ sub_pc' = "check"
    /\ UNCHANGED <<running_, start_result, connected_, pending_subscriptions_,
                   tx_queue_, message_callback_, ws_pc, rx_handled, rx_dropped,
                   thread_state, joinable>>

\* subscribeOrderBook, line 142: if (connected_ && wsi_)
SubscribeCheck ==
    /\ sub_pc = "check"
    /\ sub_pc' = IF connected_ THEN "send" ELSE "push"
    /\ UNCHANGED <<running_, start_pc, start_result, connected_,
                   pending_subscriptions_, tx_queue_, message_callback_, ws_pc,
                   rx_handled, rx_dropped, thread_state, joinable>>

\* subscribeOrderBook, line 143: sendMessage(sub_msg)
SubscribeSend ==
    /\ sub_pc = "send"
    /\ tx_queue_' = Append(tx_queue_, Subscription)
    /\ sub_pc' = "returned"
    /\ UNCHANGED <<running_, start_pc, start_result, connected_,
                   pending_subscriptions_, message_callback_, ws_pc,
                   rx_handled, rx_dropped, thread_state, joinable>>

\* subscribeOrderBook, line 145: pending_subscriptions_.push_back(sub_msg)
SubscribePush ==
    /\ sub_pc = "push"
    /\ pending_subscriptions_' = Append(pending_subscriptions_, Subscription)
    /\ sub_pc' = "returned"
    /\ UNCHANGED <<running_, start_pc, start_result, connected_, tx_queue_,
                   message_callback_, ws_pc, rx_handled, rx_dropped,
                   thread_state, joinable>>

\* start(), lines 112-115: the four worker threads are spawned
StartSpawn ==
    /\ start_pc = "subscribing"
    /\ sub_pc = "returned"
    /\ thread_state' = [w \in Workers |-> "running"]
    /\ joinable' = [w \in Workers |-> TRUE]
    /\ start_result' = "started"
    /\ start_pc' = "returned"
    /\ UNCHANGED <<running_, connected_, pending_subscriptions_, tx_queue_,
                   message_callback_, ws_pc, sub_pc, rx_handled, rx_dropped>>

\* market_data_worker, lines 155-156: setMessageCallback
WorkerSetsCallback ==
    /\ thread_state["market_data"] = "running"
    /\ ~message_callback_
    /\ message_callback_' = TRUE
    /\ UNCHANGED <<running_, start_pc, start_result, connected_,
                   pending_subscriptions_, tx_queue_, ws_pc, sub_pc,
                   rx_handled, rx_dropped, thread_state, joinable>>

\* handleConnect on the transport thread, line 353: connected_ = true
HandleConnect ==
    /\ ws_pc = "connecting"
    /\ connected_' = TRUE
    /\ ws_pc' = "flush"
    /\ UNCHANGED <<running_, start_pc, start_result, pending_subscriptions_,
                   tx_queue_, message_callback_, sub_pc, rx_handled,
                   rx_dropped, thread_state, joinable>>

\* handleConnect, lines 365-368: sendMessage for each pending subscription
HandleConnectFlush ==
    /\ ws_pc = "flush"
    /\ tx_queue_' = tx_queue_ \o pending_subscriptions_
    /\ ws_pc' = "clear"
    /\ UNCHANGED <<running_, start_pc, start_result, connected_,
                   pending_subscriptions_, message_callback_, sub_pc,
                   rx_handled, rx_dropped, thread_state, joinable>>

\* handleConnect, line 369: pending_subscriptions_.clear()
HandleConnectClear ==
    /\ ws_pc = "clear"
    /\ pending_subscriptions_' = <<>>
    /\ ws_pc' = "up"
    /\ UNCHANGED <<running_, start_pc, start_result, connected_, tx_queue_,
                   message_callback_, sub_pc, rx_handled, rx_dropped,
                   thread_state, joinable>>

\* lwsCallback, LWS_CALLBACK_CLIENT_CONNECTION_ERROR: handleError; the
\* connection is never established
HandleError ==
    /\ ws_pc = "connecting"
    /\ ws_pc' = "error"
    /\ UNCHANGED <<running_, start_pc, start_result, connected_,
                   pending_subscriptions_, tx_queue_, message_callback_,
                   sub_pc, rx_handled, rx_dropped, thread_state, joinable>>

\* lwsCallback, LWS_CALLBACK_CLOSED: wsi_ = nullptr, and handleDisconnect:
\* connected_ = false
HandleDisconnect ==
    /\ ws_pc = "up"
    /\ connected_' = FALSE
    /\ ws_pc' = "closed"
    /\ UNCHANGED <<running_, start_pc, start_result, pending_subscriptions_,
                   tx_queue_, message_callback_, sub_pc, rx_handled,
                   rx_dropped, thread_state, joinable>>

\* handleMessage on the transport thread, for a message of the subscribed
\* channel: lines 419-421, if (message_callback_) message_callback_(json_msg)
HandleMessage ==
    /\ ws_pc = "up"
    /\ tx_queue_ # <<>>
    /\ rx_handled + rx_dropped < MaxMessages
    /\ IF message_callback_
         THEN rx_handled' = rx_handled + 1 /\ UNCHANGED rx_dropped
         ELSE rx_dropped' = rx_dropped + 1 /\ UNCHANGED rx_handled
    /\ UNCHANGED <<running_, start_pc, start_result, connected_,
                   pending_subscriptions_, tx_queue_, message_callback_, ws_pc,
                   sub_pc, thread_state, joinable>>

\* the state after construction of what Part 6 and later parts follow
InitFurther ==
    /\ InitSnapshot
    /\ InitLife
    /\ InitLocks
    /\ InitGate
    /\ InitPassive
    /\ InitLatency
    /\ InitConnection

(***************************************************************************)
(* Specifications                                                          *)
(***************************************************************************)
\* the state after construction: the queue empty, RiskManager::initialize() done
\* at midnight, HFTEngine::start() done
Init ==
    /\ InitQueue
    /\ InitRisk
    /\ InitEngine
    /\ InitStop
    /\ InitMarket
    /\ InitFurther

nonQueueVars == <<riskVars, engineVars, laterVars>>
nonRiskVars == <<queueVars, engineVars, laterVars>>
nonEngineVars == <<queueVars, laterVars>>

\* one producer thread and one consumer thread on one LockFreeQueue
NextQueue ==
    \/ PushLoadTail /\ UNCHANGED nonQueueVars
    \/ PushLoadHead /\ UNCHANGED nonQueueVars
    \/ PushWrite /\ UNCHANGED nonQueueVars
    \/ PushStoreTail /\ UNCHANGED nonQueueVars
    \/ PopLoadHead /\ UNCHANGED nonQueueVars
    \/ PopLoadTail /\ UNCHANGED nonQueueVars
    \/ PopRead /\ UNCHANGED nonQueueVars
    \/ PopStoreHead /\ UNCHANGED nonQueueVars

SpecQueue == Init /\ [][NextQueue]_vars

\* the calls of the RiskManager interface, in any order, at one instant
NextRisk ==
    \/ \E symbol \in Symbols, side \in Sides, price \in Prices,
          quantity \in Quantities :
          /\ CanPlaceOrderCall(symbol, side, price, quantity)
          /\ UNCHANGED nonRiskVars
    \/ \E symbol \in PositionSymbols, side \in Sides, price \in Prices,
          quantity \in Quantities :
          /\ Abs(PositionOf(symbol) + SignedQuantity(side, quantity)) <= MaxPos
          /\ updatePosition(symbol, quantity, price, side)
          /\ UNCHANGED nonRiskVars
    \/ \E pnl_change \in PnlChanges :
          /\ Abs(current_pnl_ + pnl_change) <= MaxPnl
          /\ Abs(daily_pnl_ + pnl_change) <= MaxPnl
          /\ updatePnL(pnl_change)
          /\ UNCHANGED nonRiskVars
    \/ /\ Len(recent_orders_) < MaxRecent
       /\ recordOrderPlaced
       /\ UNCHANGED nonRiskVars
    \/ \E reason \in ManualReasons :
          /\ triggerCircuitBreaker(reason)
          /\ UNCHANGED nonRiskVars
    \/ /\ resetCircuitBreaker
       /\ UNCHANGED nonRiskVars
    \/ /\ resetDailyLimits
       /\ UNCHANGED nonRiskVars

SpecRisk == Init /\ [][NextRisk]_vars

NextRate ==
    \/ \E symbol \in PositionSymbols, side \in Sides, price \in Prices,
          quantity \in Quantities :
          /\ CanPlaceOrderCall(symbol, side, price, quantity)
          /\ UNCHANGED nonRiskVars
    \/ /\ Len(recent_orders_) < MaxRecent
       /\ recordOrderPlaced
       /\ UNCHANGED nonRiskVars
    \/ /\ MonitorWake
       /\ UNCHANGED nonRiskVars
    \/ /\ MonitorPrune
       /\ UNCHANGED nonRiskVars
    \/ /\ MonitorSleep
       /\ UNCHANGED nonRiskVars
    \/ /\ Tick
       /\ UNCHANGED nonRiskVars

\* the RiskManager was initialised 24 hours minus FirstResetDue ticks after the
\* local midnight that initialize() stored in daily_reset_time_
InitRate ==
    /\ InitQueue
    /\ InitEngine
    /\ InitStop
    /\ InitMarket
    /\ InitFurther
    /\ circuit_breaker_active_ = FALSE
    /\ circuit_breaker_reason_ = ""
    /\ positions_ = <<>>
    /\ position_limits_ = ("ETHUSDT" :> PosLimit)
    /\ current_pnl_ = 0
    /\ daily_pnl_ = 0
    /\ peak_pnl_ = 0
    /\ max_daily_loss_limit_ = -Abs(DailyLossLimit)
    /\ max_drawdown_limit_ = -Abs(DrawdownLimit)
    /\ daily_reset_time_ = FirstResetDue - TwentyFourHours
    /\ recent_orders_ = <<>>
    /\ max_orders_per_second_ = RateLimit
    /\ risk_events_ = <<RiskEvent("SYSTEM_HEALTH_CRITICAL", "INFO")>>
    /\ now = 0
    /\ monitor_pc = "top"
    /\ monitor_now = 0
    /\ lastOp = [op |-> "initialize"]

\* the RiskManager interface under a running clock, with the 1 Hz monitor
SpecRate == InitRate /\ [][NextRate]_vars

\* the trading worker and the risk worker of a running engine
NextEngine ==
    \/ TraderExit /\ UNCHANGED nonEngineVars
    \/ \E quote \in MarketQuotes : TraderSignal(quote) /\ UNCHANGED nonEngineVars
    \/ TraderIdle /\ UNCHANGED nonEngineVars
    \/ \E filled \in BOOLEAN : TraderBid(filled) /\ UNCHANGED nonEngineVars
    \/ \E filled \in BOOLEAN : TraderAsk(filled) /\ UNCHANGED nonEngineVars
    \/ \E draw \in Draws : TraderResponse(draw) /\ UNCHANGED nonEngineVars
    \/ TraderResponsesDone /\ UNCHANGED nonEngineVars
    \/ RiskTop /\ UNCHANGED nonEngineVars
    \/ RiskBreakerCheck /\ UNCHANGED nonEngineVars
    \/ \E quote \in MarketQuotes : RiskGateBuy(quote[2]) /\ UNCHANGED nonEngineVars
    \/ \E quote \in MarketQuotes : RiskGateSell(quote[1]) /\ UNCHANGED nonEngineVars
    \/ RiskPnL /\ UNCHANGED nonEngineVars

SpecEngine == Init /\ [][NextEngine]_vars

\* prices and quantities of the orders handed to the OrderManager; quantity 0
\* is an order validateOrder refuses
FillPrices == {1, 3}
FillQuantities == {0, 1, 2}

\* one OrderManager::placeOrder(symbol, side, price, quantity).get()
OrderFill(side, price, quantity, draw) ==
    /\ UNCHANGED orderVars
    /\ Len(fills) < MaxFills
    /\ executeOrder(side, price, quantity, draw)
    /\ fills' = IF validateOrder(side, price, quantity)
                  THEN Append(fills, [side |-> side, price |-> price,
                                      quantity |-> quantity])
                  ELSE fills
    /\ lastFill' = [valid |-> validateOrder(side, price, quantity),
                    side |-> side, price |-> price, quantity |-> quantity,
                    net |-> om_current_position_,
                    prev_net |-> previous_position_,
                    avg_cost |-> avg_buy_price_,
                    realised_pnl |-> cumulative_pnl_]
    /\ UNCHANGED <<running_, risk_breach_, current_position_, orders_filled,
                   inbound_order_queue_, t_pc, t_signal, t_level, ladders,
                   r_pc, r_current_pnl, r_can_buy, last_pnl, lastSend>>

\* a session of orders filled by the OrderManager
NextOrders ==
    \E side \in Sides, price \in FillPrices, quantity \in FillQuantities,
       draw \in Draws :
        OrderFill(side, price, quantity, draw) /\ UNCHANGED nonEngineVars

SpecOrders == Init /\ [][NextOrders]_vars

\* the steps of the program in shutdown and emergency stop
StopProgress ==
    \/ MainCallsStop
    \/ DestructorCallsStop
    \/ DestroyThreads
    \/ DestroyOrderManager
    \/ EmergencyStop
    \/ \E caller \in Callers : StopCheck(caller)
    \/ \E caller \in Callers : StopStore(caller)
    \/ \E caller \in Callers : StopJoinable(caller)
    \/ \E caller \in Callers, throws \in BOOLEAN : StopJoin(caller, throws)
    \/ \E caller \in Callers : StopSummary(caller)
    \/ \E w \in Workers : WorkerExit(w)

\* what main() of src/main.cpp leaves alone
lifeFrame == <<queueVars, riskVars, engineVars, stopVars, bookVars, marketVars,
               snapVars, restVars>>

\* what shutdown leaves alone
stopFrame == <<queueVars, bookVars, marketVars, furtherVars>>

\* the program with its environment: a signal may arrive, the breaker may trip
NextStop ==
    \/ SignalHandler /\ UNCHANGED stopFrame
    \/ \E reason \in ManualReasons : BreakerTrips(reason) /\ UNCHANGED stopFrame
    \/ StopProgress /\ UNCHANGED stopFrame
    \/ BotShutdown /\ UNCHANGED lifeFrame
    \/ BotDestroy /\ UNCHANGED lifeFrame

SpecStop == Init /\ [][NextStop]_vars

\* every thread of the program keeps being scheduled
SpecStopFair == SpecStop /\ WF_vars(StopProgress /\ UNCHANGED stopFrame)

\* place_order_ladder(), lines 520-557: one child order that passes the
\* guards is sent
LadderOrder(side, price, filled) ==
    /\ t_pc = "loop"
    /\ running_
    /\ active_order_count_ < MaxSends
    /\ LadderSends(TRUE, side, 1)
    /\ send_order(side, price, 1, filled)
    /\ UNCHANGED <<running_, risk_breach_, current_position_, orders_filled,
                   om_current_position_, previous_position_, avg_buy_price_,
                   cumulative_pnl_, t_pc, t_signal, t_level, ladders, r_pc,
                   r_current_pnl, r_can_buy, last_pnl, sessionVars>>
    /\ UNCHANGED riskVars

\* the clock advances while the order records are followed
OrderClock ==
    /\ now < MaxOrderAge
    /\ Tick
    /\ UNCHANGED engineVars

\* the passes of the trading worker's loop that send nothing
TraderLoop ==
    \/ TraderIdle
    \/ \E draw \in Draws : TraderResponse(draw)
    \/ TraderResponsesDone

\* the orders of a running engine under a running clock
NextOrderLife ==
    \/ \E side \in Sides, quote \in MarketQuotes, filled \in BOOLEAN :
          LadderOrder(side, IF side = "BUY" THEN quote[1] ELSE quote[2], filled)
            /\ UNCHANGED nonEngineVars
    \/ TraderIdle /\ UNCHANGED nonEngineVars
    \/ \E draw \in Draws : TraderResponse(draw) /\ UNCHANGED nonEngineVars
    \/ TraderResponsesDone /\ UNCHANGED nonEngineVars
    \/ OrderClock /\ UNCHANGED nonEngineVars

\* the trading worker keeps running and the clock keeps advancing
SpecOrderLife ==
    /\ Init
    /\ [][NextOrderLife]_vars
    /\ WF_vars(TraderLoop /\ UNCHANGED nonEngineVars)
    /\ WF_vars(OrderClock /\ UNCHANGED nonEngineVars)

\* a session of orders of one price and quantity, filled by the OrderManager
\* under a running clock
NextTrack ==
    \/ \E side \in Sides, draw \in Draws :
          OrderFill(side, MinOrderPrice, MinOrderQuantity, draw)
            /\ UNCHANGED nonEngineVars
    \/ OrderClock /\ UNCHANGED nonEngineVars

SpecTrack == Init /\ [][NextTrack]_vars

\* what the OrderBook's mutations leave alone
bookFrame == <<queueVars, riskVars, engineVars, stopVars, marketVars,
              furtherVars>>

\* what the market data callback leaves alone
callbackFrame == <<queueVars, riskVars, engineVars, stopVars, bookVars,
                  furtherVars>>

\* what the trading worker's signal path leaves alone
signalPathFrame == <<queueVars, riskVars, stopVars, bookVars, furtherVars>>

\* an OrderBook under any sequence of its mutations
NextBook ==
    \/ \E type \in {"snapshot", "update", "heartbeat"},
          product_id \in {"ETH-USD", "BTC-USD"} :
          BeginWebSocket(type, product_id) /\ UNCHANGED bookFrame
    \/ \E update \in LevelUpdates : WebSocketUpdate(update) /\ UNCHANGED bookFrame
    \/ \E rest \in UnreadEntries :
          WebSocketThrow(rest) /\ UNCHANGED bookFrame
    \/ EndWebSocket /\ UNCHANGED bookFrame
    \/ \E op \in {"updateBids", "updateAsks"} : BeginLevels(op) /\ UNCHANGED bookFrame
    \/ \E level \in DepthLevels : LevelUpdate(level) /\ UNCHANGED bookFrame
    \/ LevelMalformed /\ UNCHANGED bookFrame
    \/ EndLevels /\ UNCHANGED bookFrame
    \/ reset /\ UNCHANGED bookFrame

SpecBook == Init /\ [][NextBook]_vars

\* the feed as the market data worker publishes it, next to an OrderBook that
\* applies the same events
MarketBegin(type) ==
    /\ CallbackBegin(type, "ETH-USD")
    /\ BeginWebSocket(type, "ETH-USD")

MarketUpdate(update) ==
    /\ CallbackUpdate(update)
    /\ WebSocketUpdate(update)

MarketFinish ==
    /\ CallbackFinish
    /\ EndWebSocket

marketFrame == <<queueVars, riskVars, engineVars, stopVars, furtherVars>>

NextMarket ==
    \/ \E type \in {"snapshot", "update"} : MarketBegin(type) /\ UNCHANGED marketFrame
    \/ \E update \in FeedUpdates : MarketUpdate(update) /\ UNCHANGED marketFrame
    \/ MarketFinish /\ UNCHANGED marketFrame
    \/ CallbackStoreBid /\ UNCHANGED callbackFrame
    \/ CallbackStoreAsk /\ UNCHANGED callbackFrame
    \/ CallbackPush /\ UNCHANGED callbackFrame

SpecMarket == Init /\ [][NextMarket]_vars

\* the market data writer next to the trading worker; the simulator fills
\* nothing
NextQuote ==
    \/ \E type \in {"snapshot", "update"} :
          CallbackBegin(type, "ETH-USD") /\ UNCHANGED callbackFrame
    \/ \E update \in FeedUpdates : CallbackUpdate(update) /\ UNCHANGED callbackFrame
    \/ CallbackFinish /\ UNCHANGED callbackFrame
    \/ CallbackStoreBid /\ UNCHANGED callbackFrame
    \/ CallbackStoreAsk /\ UNCHANGED callbackFrame
    \/ CallbackPush /\ UNCHANGED callbackFrame
    \/ TraderPop /\ UNCHANGED signalPathFrame
    \/ TimedCheckBid /\ UNCHANGED signalPathFrame
    \/ TimedCheckAsk /\ UNCHANGED signalPathFrame
    \/ TimedLoadBid /\ UNCHANGED signalPathFrame
    \/ TimedLoadAsk /\ UNCHANGED signalPathFrame
    \/ TraderBid(FALSE) /\ UNCHANGED nonEngineVars
    \/ TraderAsk(FALSE) /\ UNCHANGED nonEngineVars
    \/ TraderResponsesDone /\ UNCHANGED nonEngineVars

SpecQuote == Init /\ [][NextQuote]_vars

\* what a getSnapshot caller leaves alone
snapshotFrame == <<queueVars, riskVars, engineVars, stopVars, bookVars,
                   marketVars, lifeVars, restVars>>

\* what a message of the feed leaves alone next to a getSnapshot caller
feedFrame == <<queueVars, riskVars, engineVars, stopVars, marketVars,
               lifeVars, restVars>>

\* a message of the feed arrives at updateFromWebSocket
FeedBegin(type) ==
    /\ BeginWebSocket(type, EngineSymbol)
    /\ book_before' = <<bids_, asks_>>
    /\ UNCHANGED <<snap_pc, snapshot>>

\* the entries of the feed a getSnapshot caller is followed on: levels within
\* the capacity of a side
SnapshotFeed == {update \in FeedUpdates : update.price_level <= MAX_LEVELS}

\* the feed thread in updateFromWebSocket next to a thread calling getSnapshot
NextSnapshot ==
    \/ \E type \in {"snapshot", "update"} : FeedBegin(type) /\ UNCHANGED feedFrame
    \/ \E update \in SnapshotFeed : WebSocketUpdate(update) /\ UNCHANGED bookFrame
    \/ \E rest \in {<<>>} \cup {<<update>> : update \in SnapshotFeed} :
          WebSocketThrow(rest) /\ UNCHANGED bookFrame
    \/ EndWebSocket /\ UNCHANGED bookFrame
    \/ SnapshotCall /\ UNCHANGED snapshotFrame
    \/ getSnapshot /\ UNCHANGED snapshotFrame

SpecSnapshot == Init /\ [][NextSnapshot]_vars

\* what the calls into the three components leave alone
lockFrame == <<queueVars, riskVars, engineVars, stopVars, bookVars, marketVars,
               snapVars, lifeVars, gateVars, quoteVars,
               latencyVars,
               startVars>>

\* two threads calling into RiskManager, OrderManager and OrderBook
NextLocks ==
    \/ \E thread \in LockThreads, steps \in LockCalls :
          LockCall(thread, steps) /\ UNCHANGED lockFrame
    \/ \E thread \in LockThreads : Acquire(thread) /\ UNCHANGED lockFrame
    \/ \E thread \in LockThreads : Relock(thread) /\ UNCHANGED lockFrame
    \/ \E thread \in LockThreads : RelockThrows(thread) /\ UNCHANGED lockFrame
    \/ \E thread \in LockThreads : Release(thread) /\ UNCHANGED lockFrame
    \/ \E thread \in LockThreads : StorePosition(thread) /\ UNCHANGED lockFrame
    \/ \E thread \in LockThreads : ReportLoop(thread) /\ UNCHANGED lockFrame

SpecLocks == Init /\ [][NextLocks]_vars

\* what canPlaceOrder and updatePosition leave alone
gateFrame == <<queueVars, engineVars, stopVars, bookVars, marketVars, snapVars,
               lifeVars, quoteVars, latencyVars, startVars, lock_steps,
               lock_state,
               position_keys,
               circuit_breaker_active_, circuit_breaker_reason_,
               position_limits_, current_pnl_, daily_pnl_, peak_pnl_,
               max_daily_loss_limit_, max_drawdown_limit_, recent_orders_,
               max_orders_per_second_, now, monitor_pc, monitor_now,
               daily_reset_time_, lastOp>>

\* one thread calling canPlaceOrder, two threads calling updatePosition
NextGate ==
    \/ \E side \in Sides, quantity \in Quantities :
          GateCall(side, quantity) /\ UNCHANGED gateFrame
    \/ GateLock /\ UNCHANGED gateFrame
    \/ GateCheck /\ UNCHANGED gateFrame
    \/ GateRest /\ UNCHANGED gateFrame
    \/ \E thread \in UpdateThreads, side \in Sides, quantity \in Quantities :
          UpdateCall(thread, side, quantity) /\ UNCHANGED gateFrame
    \/ \E thread \in UpdateThreads : UpdateLock(thread) /\ UNCHANGED gateFrame
    \/ \E thread \in UpdateThreads : UpdateLoad(thread) /\ UNCHANGED gateFrame
    \/ \E thread \in UpdateThreads : UpdateStore(thread) /\ UNCHANGED gateFrame
    \/ \E thread \in UpdateThreads : UpdateReturn(thread) /\ UNCHANGED gateFrame

SpecGate == Init /\ [][NextGate]_vars

\* what the computation of a ladder leaves alone
passiveFrame == <<queueVars, riskVars, engineVars, stopVars, bookVars,
                  marketVars, snapVars, lifeVars, lockVars, gateVars,
               latencyVars,
               startVars>>

\* generate_signal and place_order_ladder on every market and inventory
NextPassive ==
    \/ \E bid_price \in QuotePrices, ask_price \in QuotePrices,
          current_pos \in QuotePositions :
          QuoteSignal(bid_price, ask_price, current_pos)
              /\ UNCHANGED passiveFrame
    \/ QuoteLadder /\ UNCHANGED passiveFrame

SpecPassive == Init /\ [][NextPassive]_vars

\* what update_latency_metrics leaves alone
latencyFrame == <<queueVars, riskVars, engineVars, stopVars, bookVars,
                  marketVars, snapVars, lifeVars, lockVars, gateVars,
                  quoteVars,
               startVars>>

\* the order engine thread reports the latency of one ladder after the other
NextLatency ==
    \E latency_ns \in LatencySamples :
        update_latency_metrics(latency_ns) /\ UNCHANGED latencyFrame

SpecLatency == Init /\ [][NextLatency]_vars

\* a constructed engine before start(): not running, no worker thread
InitStart ==
    /\ InitQueue
    /\ InitRisk
    /\ InitMembers
    /\ running_ = FALSE
    /\ running = TRUE
    /\ main_pc = "start"
    /\ thread_state = [w \in Workers |-> "unstarted"]
    /\ joinable = [w \in Workers |-> FALSE]
    /\ stop_pc = [c \in Callers |-> "idle"]
    /\ stop_join = [c \in Callers |-> 1]
    /\ summaries = 0
    /\ summary_early = FALSE
    /\ terminated = FALSE
    /\ InitMarket
    /\ InitFurther

\* what start() and the connection leave alone
startFrame == <<queueVars, riskVars, risk_breach_, tradingVars, running,
                main_pc, stop_pc, stop_join, summaries, summary_early,
                terminated, bookVars, marketVars, snapVars, lifeVars,
                lockVars, gateVars, quoteVars, latencyVars>>

\* main() calling start(), the transport thread and the market data worker
NextStart ==
    \/ StartCall /\ UNCHANGED startFrame
    \/ \E url_parses \in BOOLEAN : StartConnect(url_parses) /\ UNCHANGED startFrame
    \/ StartSubscribe /\ UNCHANGED startFrame
    \/ SubscribeCheck /\ UNCHANGED startFrame
    \/ SubscribeSend /\ UNCHANGED startFrame
    \/ SubscribePush /\ UNCHANGED startFrame
    \/ StartSpawn /\ UNCHANGED startFrame
    \/ WorkerSetsCallback /\ UNCHANGED startFrame
    \/ HandleConnect /\ UNCHANGED startFrame
    \/ HandleConnectFlush /\ UNCHANGED startFrame
    \/ HandleConnectClear /\ UNCHANGED startFrame
    \/ HandleMessage /\ UNCHANGED startFrame
    \/ HandleError /\ UNCHANGED startFrame
    \/ HandleDisconnect /\ UNCHANGED startFrame

SpecStart == InitStart /\ [][NextStart]_vars

(***************************************************************************)
(* Claims about the LockFreeQueue (checked under SpecQueue)                *)
(***************************************************************************)

\* C1: with one producer and one consumer, under every interleaving, the
\* items returned by successful pops are a prefix of the items accepted by
\* successful pushes (no reordering, no duplicate), and every accepted item
\* not yet popped still sits in its slot of the ring (not lost).
C1_PopsArePrefixOfPushes ==
    /\ Len(popped) <= Len(pushed)
    /\ \A i \in 1..Len(popped) : popped[i] = pushed[i]
    /\ \A i \in (Len(popped) + 1)..Len(pushed) :
           buffer_[(i - 1) % QSize] = pushed[i]

\* C1 witness: the ring has wrapped around and every offered item came out.
C1_Witness ==
    /\ Len(popped) > QSize
    /\ popped = pushed
    /\ Len(popped) = MaxItems

\* C2 as claimed: the ring holds up to Size items; push returns false only
\* when Size accepted items are unpopped, and pop returns false exactly when
\* none is.
C2_Original ==
    /\ lastPush.ok = "false" => lastPush.unpopped = QSize
    /\ lastPop.ok = "false" => lastPop.unpopped = 0
    /\ lastPop.ok \in {"pending", "true"} => lastPop.unpopped >= 1

\* C2 amended: the ring holds up to Size - 1 items; push returns false,
\* leaving the contents unchanged, only when Size - 1 accepted items are
\* unpopped at its read of head_, and pop returns false exactly when no
\* accepted item is unpopped at its read of tail_. The slots from head_ to
\* tail_ always hold exactly the accepted, unpopped items.
C2_CapacityIsSizeMinusOne ==
    /\ Unpopped <= QSize - 1
    /\ lastPush.ok = "false" => lastPush.unpopped = QSize - 1
    /\ lastPop.ok = "false" => lastPop.unpopped = 0
    /\ lastPop.ok \in {"pending", "true"} => lastPop.unpopped >= 1
    /\ RingContents(buffer_, head_, tail_)
         = SubSeq(pushed, Len(popped) + 1, Len(pushed))

\* C2 witness: a push was refused on a ring holding Size - 1 items, and a pop
\* was refused on an empty ring.
C2_Witness ==
    /\ lastPush.ok = "false"
    /\ lastPush.unpopped = QSize - 1
    /\ lastPop.ok = "false"
    /\ Len(pushed) >= QSize - 1

(***************************************************************************)
(* Claims about the RiskManager (checked under SpecRisk and SpecRate)      *)
(***************************************************************************)
PositionReason(symbol) == <<"Position limit exceeded for ", symbol>>
RateReason == <<"Order rate limit exceeded">>
BreakerEvent == RiskEvent("CIRCUIT_BREAKER_TRIGGERED", "EMERGENCY")
PositionEvent == RiskEvent("POSITION_LIMIT_EXCEEDED", "CRITICAL")

\* every input of canPlaceOrder is rejected in the current state
AllOrdersRejected ==
    \A symbol \in Symbols, side \in Sides, price \in Prices,
       quantity \in Quantities :
        ~canPlaceOrder(symbol, side, price, quantity).allowed

\* number of recorded order timestamps within the last second before t
CountLastSecond(orders, t) ==
    Cardinality({i \in 1..Len(orders) : orders[i] > t - OneSecond})

\* number of occurrences of timestamp ts
CountOf(orders, ts) == Cardinality({i \in 1..Len(orders) : orders[i] = ts})

\* C3: while the circuit breaker is active, canPlaceOrder rejects every
\* symbol, side, price and quantity, whatever the positions, the PnL and the
\* recent order rate are.
C3_BreakerRejectsEveryOrder ==
    circuit_breaker_active_ =>
        /\ AllOrdersRejected
        /\ lastOp.op = "canPlaceOrder" => ~lastOp.allowed

\* C3 witness: a canPlaceOrder call was rejected for the breaker alone: its
\* order passes the position, financial and rate checks.
C3_Witness ==
    /\ circuit_breaker_active_
    /\ lastOp.op = "canPlaceOrder"
    /\ ~lastOp.allowed
    /\ lastOp.reason = <<"Circuit breaker active: ", circuit_breaker_reason_>>
    /\ Abs(PositionOf(lastOp.symbol)
           + SignedQuantity(lastOp.side, lastOp.quantity)) <= PosLimit
    /\ daily_pnl_ > max_daily_loss_limit_
    /\ peak_pnl_ - current_pnl_ < Abs(max_drawdown_limit_)
    /\ CountLastSecond(recent_orders_, now) < max_orders_per_second_

\* C4: once the breaker is active it stays active through every call other
\* than resetCircuitBreaker: canPlaceOrder, updatePosition, updatePnL (gains
\* included), recordOrderPlaced and the daily reset.
C4_BreakerLatchedUntilReset ==
    [][(circuit_breaker_active_ /\ lastOp'.op # "resetCircuitBreaker")
          => circuit_breaker_active_']_vars

\* C4 witness: the breaker tripped on the daily loss, a later gain brought
\* the PnL back inside both limits, and the breaker is still active.
C4_Witness ==
    /\ circuit_breaker_active_
    /\ lastOp.op = "updatePnL"
    /\ circuit_breaker_reason_ = "Daily loss limit exceeded"
    /\ daily_pnl_ > max_daily_loss_limit_
    /\ peak_pnl_ - current_pnl_ < Abs(max_drawdown_limit_)

\* C5 as claimed: whenever updatePnL returns with daily_pnl <= the daily loss
\* limit, the breaker is active, its reason mentions the daily loss limit,
\* and canPlaceOrder rejects every order.
C5_Original ==
    (lastOp.op = "updatePnL" /\ daily_pnl_ <= max_daily_loss_limit_) =>
        /\ circuit_breaker_active_
        /\ circuit_breaker_reason_ = "Daily loss limit exceeded"
        /\ AllOrdersRejected

\* C5 amended: whenever updatePnL returns with daily_pnl <= the daily loss
\* limit, the breaker is active, the call recorded a DAILY_LOSS_LIMIT_EXCEEDED
\* event, the reason mentions the daily loss limit unless the drawdown limit
\* is breached too (then it is "Drawdown limit exceeded"), and canPlaceOrder
\* rejects every order.
C5_DailyLossTripsBreaker ==
    (lastOp.op = "updatePnL" /\ daily_pnl_ <= max_daily_loss_limit_) =>
        /\ circuit_breaker_active_
        /\ circuit_breaker_reason_ =
              (IF peak_pnl_ - current_pnl_ >= Abs(max_drawdown_limit_)
                 THEN "Drawdown limit exceeded"
                 ELSE "Daily loss limit exceeded")
        /\ \E i \in 1..Len(lastOp.events) :
              lastOp.events[i] =
                  RiskEvent("DAILY_LOSS_LIMIT_EXCEEDED", "EMERGENCY")
        /\ AllOrdersRejected

\* C5 witness: updatePnL returned exactly at the daily loss limit, with the
\* drawdown inside its limit.
C5_Witness ==
    /\ lastOp.op = "updatePnL"
    /\ daily_pnl_ = max_daily_loss_limit_
    /\ peak_pnl_ - current_pnl_ < Abs(max_drawdown_limit_)
    /\ circuit_breaker_active_
    /\ circuit_breaker_reason_ = "Daily loss limit exceeded"

\* C6: updatePnL activates the breaker if and only if, after adding the
\* delta and updating the peak, peak_pnl - current_pnl >= |drawdown_limit| or
\* daily_pnl <= daily_loss_limit; otherwise it leaves flag and reason as
\* they were.
C6_UpdatePnLTriggersIff ==
    [][lastOp'.op = "updatePnL" =>
          LET hit == \/ peak_pnl_' - current_pnl_' >= Abs(max_drawdown_limit_')
                     \/ daily_pnl_' <= max_daily_loss_limit_'
              triggered == \E i \in 1..Len(lastOp'.events) :
                               lastOp'.events[i] = BreakerEvent
          IN /\ hit <=> triggered
             /\ hit => circuit_breaker_active_'
             /\ ~hit => /\ circuit_breaker_active_' = circuit_breaker_active_
                        /\ circuit_breaker_reason_' = circuit_breaker_reason_
      ]_vars

\* C6 witness: updatePnL tripped the breaker on the drawdown exactly at its
\* limit while the daily PnL was above the daily loss limit.
C6_Witness ==
    /\ lastOp.op = "updatePnL"
    /\ circuit_breaker_active_
    /\ circuit_breaker_reason_ = "Drawdown limit exceeded"
    /\ peak_pnl_ - current_pnl_ = Abs(max_drawdown_limit_)
    /\ daily_pnl_ > max_daily_loss_limit_

\* C7: with the breaker inactive and a limit set for the symbol,
\* canPlaceOrder rejects with the position reason exactly when
\* |current_net + signed_qty| > position_limit[symbol]; such a rejection
\* records exactly one POSITION_LIMIT_EXCEEDED event of level CRITICAL, and
\* the call never changes the stored positions.
C7_PositionGate ==
    [][(/\ lastOp'.op = "canPlaceOrder"
        /\ ~circuit_breaker_active_
        /\ lastOp'.symbol \in DOMAIN position_limits_) =>
          LET symbol == lastOp'.symbol
              signed_qty == IF lastOp'.side = "BUY" THEN lastOp'.quantity
                            ELSE -lastOp'.quantity
              current_net == IF symbol \in DOMAIN positions_
                               THEN positions_[symbol] ELSE 0
              over == Abs(current_net + signed_qty) > position_limits_[symbol]
          IN /\ (lastOp'.reason = PositionReason(symbol)) <=> over
             /\ over => /\ ~lastOp'.allowed
                        /\ lastOp'.events = <<PositionEvent>>
                        /\ risk_events_'[Len(risk_events_')] = PositionEvent
             /\ positions_' = positions_
             /\ position_limits_' = position_limits_
      ]_vars

\* C7 witness: a BUY at a net position equal to the limit was rejected for
\* the position.
C7_Witness ==
    /\ lastOp.op = "canPlaceOrder"
    /\ lastOp.side = "BUY"
    /\ lastOp.symbol \in DOMAIN position_limits_
    /\ PositionOf(lastOp.symbol) = position_limits_[lastOp.symbol]
    /\ lastOp.reason = PositionReason(lastOp.symbol)
    /\ risk_events_[Len(risk_events_)] = PositionEvent

C9_Original == lastSend.sent => lastSend.gate_allowed

\* C10 as claimed: once the circuit breaker is active, the trading worker
\* begins no further send_order.
C10_Original == lastSend.sent => ~lastSend.breaker_active

\* C11 as claimed: in every reachable state of the engine the absolute net
\* position does not exceed the configured maximum inventory.
C11_Original == Abs(current_position_) <= MaxInventory

(***************************************************************************)
(* Claims about the OrderManager's position and PnL accounting             *)
(***************************************************************************)

\* quantity of a fill, signed by its side
SignedFill(fill) == IF fill.side = "BUY" THEN fill.quantity ELSE -fill.quantity

\* sum of the signed quantities of the first n fills of a history
RECURSIVE NetOfPrefix(_, _)
NetOfPrefix(history, n) ==
    IF n = 0 THEN 0
    ELSE NetOfPrefix(history, n - 1) + SignedFill(history[n])

\* C12: after any sequence of fills the OrderManager's net position is the sum
\* of the signed fill quantities in arrival order, and at the start of each
\* fill previous_position_ is the net position the fill before it left.
C12_PositionIsSumOfFills ==
    /\ om_current_position_ = NetOfPrefix(fills, Len(fills))
    /\ previous_position_ = om_current_position_
    /\ (lastFill.valid =>
          /\ lastFill.prev_net = lastFill.net
          /\ lastFill.prev_net = NetOfPrefix(fills, Len(fills) - 1))

\* C12 witness: three fills of both sides have been applied and left a
\* non-zero net position.
C12_Witness ==
    /\ Len(fills) >= 3
    /\ lastFill.valid
    /\ \E i, j \in 1..Len(fills) : fills[i].side = "BUY" /\ fills[j].side = "SELL"
    /\ om_current_position_ # 0

\* net position a fill leaves, from the observation of the state before it
C13_NewNet ==
    lastFill.net + (IF lastFill.side = "BUY" THEN lastFill.quantity
                    ELSE -lastFill.quantity)

\* the reference's realised PnL after a fill
C13_ReferenceRealised ==
    IF lastFill.side = "SELL" /\ lastFill.prev_net > 0
      THEN lastFill.realised_pnl
             + (lastFill.price - lastFill.avg_cost) * lastFill.quantity
      ELSE lastFill.realised_pnl

\* the reference's weighted average cost after a BUY
C13_WeightedAvg ==
    (lastFill.avg_cost * Abs(lastFill.prev_net)
       + lastFill.quantity * lastFill.price) \div Abs(C13_NewNet)

\* C13 as claimed: a BUY sets avg_cost to the weighted average whenever the
\* new net position is not zero, else to the fill price; realised PnL grows
\* by (price - avg_cost) * quantity on a SELL at positive previous net and is
\* unchanged otherwise.
C13_Original ==
    lastFill.valid =>
      /\ cumulative_pnl_ = C13_ReferenceRealised
      /\ (lastFill.side = "BUY" =>
            avg_buy_price_ = IF C13_NewNet # 0 THEN C13_WeightedAvg
                             ELSE lastFill.price)

\* C13 amended: a BUY sets avg_cost to the weighted average only when the new
\* net position is positive, and to the fill price when it is zero or
\* negative; realised PnL as claimed.
C13_FillMatchesReference ==
    lastFill.valid =>
      /\ cumulative_pnl_ = C13_ReferenceRealised
      /\ (lastFill.side = "BUY" =>
            avg_buy_price_ = IF C13_NewNet > 0 THEN C13_WeightedAvg
                             ELSE lastFill.price)

\* C13 witness: a BUY at a price other than the average cost has raised a
\* positive net position, and a SELL at positive net has realised PnL.
C13_Witness ==
    /\ lastFill.valid
    /\ lastFill.side = "BUY"
    /\ lastFill.prev_net > 0
    /\ lastFill.price # lastFill.avg_cost
    /\ lastFill.realised_pnl # 0

\* C13 counterexample state: a BUY has left the net position negative.
C13_BuyWhileShort ==
    lastFill.valid /\ lastFill.side = "BUY" /\ C13_NewNet < 0

\* the fills of one side in a history
FillsOf(side) == {i \in 1..Len(fills) : fills[i].side = side}

\* the history is n BUY fills at one price b and n SELL fills at one price s,
\* all of one quantity q, n >= 1
C14_BalancedSession(n, b, s, q) ==
    /\ n >= 1
    /\ Cardinality(FillsOf("BUY")) = n
    /\ Cardinality(FillsOf("SELL")) = n
    /\ \A i \in FillsOf("BUY") : fills[i].price = b
    /\ \A i \in FillsOf("SELL") : fills[i].price = s
    /\ \A i \in 1..Len(fills) : fills[i].quantity = q

\* the session figures the claim expects
C14_Expected(n, b, s, q) ==
    [total_trades |-> 2 * n, buy_trades |-> n, sell_trades |-> n,
     final_position |-> 0, final_pnl |-> n * q * (s - b)]

\* every SELL of the history arrived while the net position was positive
C14_SellsWhileLong ==
    \A i \in FillsOf("SELL") : NetOfPrefix(fills, i - 1) > 0

\* C14 as claimed: after n BUY fills at b and n SELL fills at s, all of
\* quantity q, in any order, the summary shows n buys, n sells, 2n trades,
\* final position 0 and realised PnL n*q*(s-b).
C14_Original ==
    \A n \in 1..MaxFills, b \in FillPrices, s \in FillPrices,
       q \in FillQuantities :
        C14_BalancedSession(n, b, s, q) => SessionSummary = C14_Expected(n, b, s, q)

\* C14 amended: the same figures, for the sessions in which every SELL fill
\* arrives while the net position is positive.
C14_BalancedSessionSummary ==
    \A n \in 1..MaxFills, b \in FillPrices, s \in FillPrices,
       q \in FillQuantities :
        (C14_BalancedSession(n, b, s, q) /\ C14_SellsWhileLong)
            => SessionSummary = C14_Expected(n, b, s, q)

\* C14 witness: a session of two buys at 1 and two sells at 3, each of
\* quantity 2 and each sell at positive net, has ended.
C14_Witness ==
    /\ C14_BalancedSession(2, 1, 3, 2)
    /\ C14_SellsWhileLong
    /\ cumulative_pnl_ # 0

\* C14 counterexample state: a balanced session in which a SELL arrived at a
\* net position that was not positive.
C14_SellWhileFlat ==
    /\ \E n \in 1..MaxFills, b \in FillPrices, s \in FillPrices,
          q \in FillQuantities : b # s /\ C14_BalancedSession(n, b, s, q)
    /\ ~C14_SellsWhileLong


(***************************************************************************)
(* Claims about shutdown and emergency stop                                *)
(***************************************************************************)

\* the engine is STOPPED: running_ is false, the four workers have exited and
\* have been joined, a session summary exists, and no emergency_stop() call
\* of the risk worker is still inside stop()
C15_Stopped ==
    /\ ~running_
    /\ \A w \in Workers : thread_state[w] = "exited" /\ ~joinable[w]
    /\ summaries >= 1
    /\ ~InStop("emergency")

\* C15 as claimed: whenever the circuit breaker is active while the engine is
\* running, the engine eventually is STOPPED: all four workers exited and
\* joined, the session summary produced, and the risk worker's
\* emergency_stop() call returned.
C15_Original == (circuit_breaker_active_ /\ running_) ~> C15_Stopped

\* C16 as claimed: whenever a call of stop() has returned, whoever made it,
\* all four worker threads have terminated and the session summary was
\* generated, and only after all of them had terminated.
C16_Original ==
    \A caller \in Callers :
        stop_pc[caller] = "returned" =>
            /\ \A w \in Workers : thread_state[w] = "exited"
            /\ summaries >= 1
            /\ ~summary_early

(***************************************************************************)
(* Claims about the engine's order records                                 *)
(***************************************************************************)

\* C17 as claimed: every order the engine submitted eventually has a terminal
\* status in its record, FILLED or cancelled; no record stays NEW forever.
C17_Original ==
    \A i \in 1..ActiveOrdersSize :
        (Len(active_orders_) >= i)
            ~> (Len(active_orders_) >= i /\ active_orders_[i].status \in {"F", "C"})

(***************************************************************************)
(* Claims about the order book and the market data path                    *)
(***************************************************************************)

\* the book holds an uncrossed two-sided market: 0 < best bid < best ask
C18_BookTwoSided ==
    /\ getBestBidPrice > 0
    /\ getBestAskPrice > 0
    /\ getBestBidPrice < getBestAskPrice

\* C18 as claimed: once a market event is processed and published, the
\* published best_bid and best_ask are the best bid and ask of the order book
\* that applied all events so far (the book being an uncrossed two-sided
\* market); removing the best bid lowers the published best_bid.
C18_Original ==
    (md_pc = "idle" /\ book_op = "none" /\ C18_BookTwoSided) =>
        /\ current_bid_ = getBestBidPrice
        /\ current_ask_ = getBestAskPrice

C21_Original ==
    book_op = "none" =>
        /\ Cardinality(DOMAIN bids_) <= MAX_LEVELS
        /\ Cardinality(DOMAIN asks_) <= MAX_LEVELS

\* the book a side would be if the entries of a message were applied to it
RECURSIVE C22_Applied(_, _, _, _)
C22_Applied(book, type, entries, side) ==
    IF entries = <<>> THEN book
    ELSE C22_Applied(IF type = "snapshot"
                       THEN SnapshotLevel(book, Head(entries), side)
                       ELSE UpdateLevel(book, Head(entries), side),
                     type, Tail(entries), side)

\* C22 as claimed: when a batch contained an entry with a malformed numeric
\* field, that entry alone was dropped: every well-formed entry after it has
\* been applied to the book as well, so applying them again changes nothing.
C22_Original ==
    (book_op = "none" /\ book_unread.type # "none") =>
        /\ bids_ = C22_Applied(bids_, book_unread.type, book_unread.entries, "bid")
        /\ asks_ = C22_Applied(asks_, book_unread.type, book_unread.entries, "offer")

\* C23 as claimed: a getSnapshot() that was called while updateFromWebSocket
\* was applying a batch returns the levels and best prices of the book either
\* before or after the whole batch, never of a partially applied one.
C23_Original ==
    [][(snap_pc = "blocked" /\ snap_pc' = "idle")
        => \/ snapshot' = SnapshotOf(book_before[1], book_before[2])
           \/ snapshot' = SnapshotOf(
                 C22_Applied(bids_, book_unread.type, book_unread.entries, "bid"),
                 C22_Applied(asks_, book_unread.type, book_unread.entries, "offer"))]_vars

(***************************************************************************)
(* Claims about the OrderManager's order ids and shutdown                  *)
(***************************************************************************)

\* C24 as claimed: any two orders executed by the OrderManager receive
\* distinct client ids, for every choice of clock readings and random draws,
\* so the tracked-orders table keyed by the id holds one entry per placed
\* order.
C24_Original == Cardinality(tracked_orders_) = orders_placed_

\* C25 as claimed: each OrderManager generates exactly one session summary
\* in its lifetime, across HFTEngine::stop(), an explicit shutdown() and the
\* destruction of the object: never a second one, and one once it is
\* destroyed.
C25_Original ==
    /\ summaries <= 1
    /\ bot_summaries <= 1
    /\ (main_pc = "exit" => summaries = 1)
    /\ (bot_pc = "destroyed" => bot_summaries = 1)

(***************************************************************************)
(* Further claims about the RiskManager                                    *)
(***************************************************************************)

\* C26 as claimed: every call of canPlaceOrder that rejects, for the circuit
\* breaker, the position limit, the financial limits or the order rate,
\* appends at least one entry to the risk event log.
C26_Original ==
    (lastOp.op = "canPlaceOrder" /\ ~lastOp.allowed) => lastOp.events # <<>>

\* C27 as claimed: getCurrentRiskStatus returns EMERGENCY exactly when the
\* circuit breaker is latched, and immediately after resetCircuitBreaker()
\* the observed status is NORMAL with the breaker off.
C27_Original ==
    /\ (getCurrentRiskStatus = "EMERGENCY") <=> circuit_breaker_active_
    /\ lastOp.op = "resetCircuitBreaker" =>
          /\ ~circuit_breaker_active_
          /\ getCurrentRiskStatus = "NORMAL"


\* C28: no call chain requests a mutex the calling thread already holds, and
\* no thread waits for ever on a lock.
C28_Original ==
    \A thread \in LockThreads :
        /\ lock_state[thread] = "running"
        /\ AtStep(thread, "lock") =>
               mutex_owner[NextStep(thread).mutex] # thread


\* C29: the position that canPlaceOrder's limit check evaluates is the net of
\* a set of updatePosition calls that contains every call that had returned
\* when canPlaceOrder began, under every interleaving, and the check compares
\* that position plus the order with the limit.
C29_GateSeesCommitted ==
    gate.checked =>
        /\ gate.began \subseteq gate.seen
        /\ gate.position = SumChanges(gate.seen)
        /\ gate.passed =
              (Abs(gate.position + SignedQuantity(gate.side, gate.quantity))
                  <= position_limits_[GateSymbol])

\* a canPlaceOrder that began after an updatePosition had returned, read the
\* position after another one had stored, and was rejected for the position
C29_Witness ==
    /\ gate.pc = "returned"
    /\ gate.checked
    /\ gate.began # {}
    /\ gate.seen # gate.began
    /\ ~gate.passed
    /\ \E thread \in UpdateThreads : upd[thread].pc = "lock"


\* C30: for market data with 0 < best bid < best ask and every inventory, the
\* quoted bid is below the quoted ask, every bid order of the ladder is priced
\* below the best ask, every ask order above the best bid, and every bid
\* order below every ask order.
C30_LadderIsPassive ==
    (0 < quote_input.bid_price /\ quote_input.bid_price < quote_input.ask_price)
    => /\ quote_signal.bid_price < quote_signal.ask_price
       /\ \A i \in 1..Len(quote_orders) :
             /\ quote_orders[i].side = "B"
                   => quote_orders[i].price < quote_input.ask_price
             /\ quote_orders[i].side = "S"
                   => quote_orders[i].price > quote_input.bid_price
       /\ \A i, j \in 1..Len(quote_orders) :
             (quote_orders[i].side = "B" /\ quote_orders[j].side = "S")
             => quote_orders[i].price < quote_orders[j].price

\* a full ladder on the tightest uncrossed market with a long inventory: the
\* ask is skewed and both sides of every level are placed
C30_Witness ==
    /\ quote_input.bid_price = 1000
    /\ quote_input.ask_price = 1002
    /\ quote_input.current_pos > MaxNeutralPos
    /\ Len(quote_orders) = 2 * NumLevels
    /\ quote_signal.ask_price = SkewedAskPrice(quote_input.ask_price)


\* C31: generate_signal scales both quote sizes by max(0, 1 - |q| / hard_cap);
\* when |q| reaches the hard cap the signal has zero quantity and does not
\* request placing an order.
C31_Original ==
    LET q == Abs(quote_input.current_pos)
        scale == IF q >= PenaltyInventory THEN 0 ELSE PenaltyInventory - q
    IN quote_signal # NoSignal =>
          /\ quote_signal.bid_quantity = (OrderSize * scale) \div PenaltyInventory
          /\ quote_signal.ask_quantity = (OrderSize * scale) \div PenaltyInventory
          /\ q >= PenaltyInventory =>
                ~quote_signal.place_bid /\ ~quote_signal.place_ask


C33_Original ==
    latency_samples # <<>> =>
        /\ avg_order_latency_ns =
              (latency_prev_avg + latency_samples[Len(latency_samples)]) \div 2
        /\ min_order_latency_ns = LeastSample(latency_samples)
        /\ max_order_latency_ns = GreatestSample(latency_samples)


\* C34: the market-data callback is registered before the stream is
\* subscribed and before any worker is spawned, so every message delivered
\* after the subscription is handled by the callback.
C34_Original ==
    /\ (sub_pc # "idle" \/ \E w \in Workers : thread_state[w] = "running")
          => message_callback_
    /\ rx_dropped = 0


\* C38: a subscription requested with subscribeOrderBook is sent exactly once
\* once the connection is established, however the request interleaves with
\* handleConnect on the transport thread.
C38_Original ==
    (sub_pc = "returned" /\ ws_pc = "up") => Len(tx_queue_) = 1

\* C40: after a start() whose connect failed the engine is not running;
\* outside start(), is_running() holds only with the four workers spawned;
\* and a later start() does not return immediately.
C40_Original ==
    /\ start_result = "connect failed" => ~running_
    /\ (running_ /\ start_pc \in {"idle", "returned"})
          => \A w \in Workers : thread_state[w] = "running"
    /\ start_result = "already running"
          => \A w \in Workers : thread_state[w] = "running"


\* C35: every order submitted through send_order is recorded in the active
\* orders table, for any number of orders of a session.
C35_Original ==
    Len(active_orders_) = active_order_count_


\* C36: whenever the fill path and the risk worker are quiescent (no fill is
\* queued or being processed, and the risk worker has published the latest
\* PnL of the Order Manager), the Risk Manager's cumulative PnL and its daily
\* PnL equal the Order Manager's cumulative realised PnL.
C36_Original ==
    (/\ inbound_order_queue_ = <<>>
     /\ t_pc = "loop"
     /\ r_pc = "top"
     /\ last_pnl = cumulative_pnl_)
    => /\ current_pnl_ = cumulative_pnl_
       /\ daily_pnl_ = cumulative_pnl_


\* C37: after every processed fill (no fill waits in the inbound queue), the
\* engine's net position equals the Order Manager's tracked position and the
\* number of fills the engine has counted equals the Order Manager's trade
\* count: no fill is rejected by validateOrder.
C37_Original ==
    inbound_order_queue_ = <<>>
    => /\ current_position_ = om_current_position_
       /\ orders_filled = buy_trades_ + sell_trades_


(***************************************************************************)
(* The position limit and the trading symbol: main's loop asks             *)
(* canPlaceOrder for config.getTradingSymbol() and reports each accepted   *)
(* order through updatePosition with the same symbol (main.cpp:176-196).   *)
(***************************************************************************)
NextLimit ==
    \/ \E symbol \in Symbols, side \in Sides, price \in Prices,
          quantity \in OrderQuantities :
          /\ CanPlaceOrderCall(symbol, side, price, quantity)
          /\ UNCHANGED nonRiskVars
    \/ \E symbol \in Symbols, side \in Sides, price \in Prices,
          quantity \in Quantities :
          /\ Abs(PositionOf(symbol) + SignedQuantity(side, quantity)) <= MaxPos
          /\ updatePosition(symbol, quantity, price, side)
          /\ UNCHANGED nonRiskVars

SpecLimit == Init /\ [][NextLimit]_vars

\* C39: after initialisation, every call of canPlaceOrder for the symbol the
\* engine trades (ETH-USD) whose projected net position exceeds, in absolute
\* value, the configured position limit is rejected.
C39_Original ==
    (/\ lastOp.op = "canPlaceOrder"
     /\ lastOp.symbol = EngineSymbol
     /\ Abs(PositionOf(EngineSymbol)
              + SignedQuantity(lastOp.side, lastOp.quantity)) > PosLimit)
    => ~lastOp.allowed

====
